---- MODULE Spec2Model ----
(***************************************************************************)
(* SmartHealth-Bot, ai-model/app.py: the symptom resolver, the prediction  *)
(* handler and the startup sequence of the disease-prediction service.     *)
(*                                                                         *)
(* app.py carries unresolved merge markers.  The model follows the         *)
(* incoming side (2e6afe8), the only side in which predict() can call the  *)
(* resolver it names (map_natural_language_symptoms); the HEAD side of a   *)
(* region is modelled separately where a property is stated about it.      *)
(*                                                                         *)
(* Text is modelled as TLA+ strings, taken apart character by character    *)
(* with Len and SubSeq, so that str.strip, str.lower, str.replace,         *)
(* re.split, the `in' substring test and difflib's similarity ratio are    *)
(* computed the way Python computes them.                                  *)
(***************************************************************************)
EXTENDS Integers, Sequences, FiniteSets, TLC

(***************************************************************************)
(* Characters and strings                                                  *)
(***************************************************************************)

\* The characters the model's texts are written with, in code-point order
\* (Python compares strings by code point).
CodeOrder == "\t\n\r ',.0123456789;ABCDEFGHIJKLMNOPQRSTUVWXYZ_abcdefghijklmnopqrstuvwxyz"

UpperCase == "ABCDEFGHIJKLMNOPQRSTUVWXYZ"

LowerCaseLetters == "abcdefghijklmnopqrstuvwxyz"

\* str.strip() and str.split() treat these as whitespace.
WhiteSpace == {" ", "\t", "\n", "\r"}

\* The class [,;.\n\r] of the re.split pattern.
Delimiters == {",", ";", ".", "\n", "\r"}

Ch(s, i) == SubSeq(s, i, i)

\* The rank of every character of CodeOrder.
OrdTable ==
    [c \in {Ch(CodeOrder, i) : i \in 1..Len(CodeOrder)} |->
        CHOOSE i \in 1..Len(CodeOrder) : Ch(CodeOrder, i) = c]

Ord(c) == OrdTable[c]

\* a < b for Python strings.
RECURSIVE StrLess(_, _)
StrLess(a, b) ==
    IF Len(a) = 0 THEN Len(b) > 0
    ELSE IF Len(b) = 0 THEN FALSE
    ELSE IF Ch(a, 1) = Ch(b, 1) THEN StrLess(Tail(a), Tail(b))
    ELSE Ord(Ch(a, 1)) < Ord(Ch(b, 1))

\* sub in s
Contains(sub, s) ==
    \E i \in 1..(Len(s) - Len(sub) + 1) : SubSeq(s, i, i + Len(sub) - 1) = sub

\* The lower-case letter of every upper-case letter, and the reverse.
LowerTable ==
    [c \in {Ch(UpperCase, i) : i \in 1..Len(UpperCase)} |->
        Ch(LowerCaseLetters, CHOOSE i \in 1..Len(UpperCase) : Ch(UpperCase, i) = c)]

UpperTable ==
    [c \in {Ch(LowerCaseLetters, i) : i \in 1..Len(LowerCaseLetters)} |->
        Ch(UpperCase, CHOOSE i \in 1..Len(LowerCaseLetters) : Ch(LowerCaseLetters, i) = c)]

LowerChar(c) == IF c \in DOMAIN LowerTable THEN LowerTable[c] ELSE c

\* s.lower()
RECURSIVE Lower(_)
Lower(s) == IF Len(s) = 0 THEN s ELSE LowerChar(Ch(s, 1)) \o Lower(Tail(s))

\* s.strip()
RECURSIVE LStrip(_)
LStrip(s) ==
    IF Len(s) > 0 /\ Ch(s, 1) \in WhiteSpace THEN LStrip(Tail(s)) ELSE s

RECURSIVE RStrip(_)
RStrip(s) ==
    IF Len(s) > 0 /\ Ch(s, Len(s)) \in WhiteSpace
    THEN RStrip(SubSeq(s, 1, Len(s) - 1)) ELSE s

Strip(s) == RStrip(LStrip(s))

\* s.replace(old, new) for single characters old, new.
RECURSIVE Replace(_, _, _)
Replace(s, old, new) ==
    IF Len(s) = 0 THEN s
    ELSE IF Len(s) = 1 THEN (IF s = old THEN new ELSE s)
    ELSE Replace(SubSeq(s, 1, Len(s) \div 2), old, new)
            \o Replace(SubSeq(s, Len(s) \div 2 + 1, Len(s)), old, new)

\* repr(s) of a str: in single quotes, or in double quotes when it holds a
\* single quote and no double one; the backslash, the quote it is written
\* in and \t, \n, \r are written as backslash sequences.
RECURSIVE Escaped(_, _)
Escaped(s, quote) ==
    IF Len(s) = 0 THEN s
    ELSE IF Len(s) = 1
    THEN (IF s = "\\" THEN "\\\\"
          ELSE IF s = quote THEN "\\" \o quote
          ELSE IF s = "\t" THEN "\\t"
          ELSE IF s = "\n" THEN "\\n"
          ELSE IF s = "\r" THEN "\\r"
          ELSE s)
    ELSE Escaped(SubSeq(s, 1, Len(s) \div 2), quote)
            \o Escaped(SubSeq(s, Len(s) \div 2 + 1, Len(s)), quote)

Quote(s) == IF Contains("'", s) /\ ~Contains("\"", s) THEN "\"" ELSE "'"

repr(s) == Quote(s) \o Escaped(s, Quote(s)) \o Quote(s)

\* The pieces of s between maximal runs of characters of seps; with
\* keepEmpty the empty piece before a leading run and after a trailing run
\* is kept, as re.split keeps it, and without it dropped, as str.split()
\* drops it.
RECURSIVE SplitRuns(_, _, _, _, _)
SplitRuns(s, seps, keepEmpty, cur, inRun) ==
    IF Len(s) = 0
    THEN IF inRun /\ ~keepEmpty THEN <<>> ELSE <<cur>>
    ELSE IF Ch(s, 1) \in seps
         THEN IF inRun
              THEN SplitRuns(Tail(s), seps, keepEmpty, cur, TRUE)
              ELSE <<cur>> \o SplitRuns(Tail(s), seps, keepEmpty, "", TRUE)
         ELSE SplitRuns(Tail(s), seps, keepEmpty, cur \o Ch(s, 1), FALSE)

\* re.split(r'[,;.\n\r]+', s)
ReSplit(s) == SplitRuns(s, Delimiters, TRUE, "", FALSE)

\* s.split()
WordSplit(s) ==
    LET r == SplitRuns(s, WhiteSpace, FALSE, "", FALSE)
    IN  IF Len(r) > 0 /\ r[1] = "" THEN Tail(r) ELSE r

Range(f) == {f[i] : i \in DOMAIN f}

\* sorted(S) for a set of strings.
RECURSIVE SortedSeq(_)
SortedSeq(S) ==
    IF S = {} THEN <<>>
    ELSE LET m == CHOOSE x \in S : \A y \in S \ {x} : StrLess(x, y)
         IN  <<m>> \o SortedSeq(S \ {m})

\* def clean_symptom(s), for a string s (pd.isna is false of every string).
clean_symptom(s) == Replace(Lower(Strip(s)), " ", "_")

\* def standardize_disease_name(name): strip, then str.title(): the first
\* letter of every run of letters in upper case, the rest in lower case.
UpperChar(c) == IF c \in DOMAIN UpperTable THEN UpperTable[c] ELSE c

IsLetter(c) == c \in DOMAIN LowerTable \/ c \in DOMAIN UpperTable

RECURSIVE Title(_, _)
Title(s, afterLetter) ==
    IF Len(s) = 0 THEN s
    ELSE (IF afterLetter THEN LowerChar(Ch(s, 1)) ELSE UpperChar(Ch(s, 1)))
         \o Title(Tail(s), IsLetter(Ch(s, 1)))

standardize_disease_name(name) == Title(Strip(name), FALSE)

(***************************************************************************)
(* The symptom resolver                                                    *)
(***************************************************************************)

\* The synonym table, in the insertion order the dict iterates in:
\* <<official symptom, alternate phrasings>>.
SYMPTOM_SYNONYMS == <<
    <<"fever", <<"high temperature", "temperature", "hot", "burning up", "pyrexia">>>>,
    <<"headache", <<"head pain", "migraine", "head ache", "cranial pain">>>>,
    <<"cough", <<"coughing", "hack", "throat clearing">>>>,
    <<"fatigue", <<"tired", "exhausted", "weakness", "weak", "lethargy", "drowsy">>>>,
    <<"nausea", <<"sick", "queasy", "feel sick", "stomach upset">>>>,
    <<"vomiting", <<"throwing up", "puking", "being sick", "retching">>>>,
    <<"diarrhea", <<"loose stools", "runny stomach", "upset stomach">>>>,
    <<"abdominal_pain", <<"stomach pain", "belly pain", "tummy ache", "stomach ache">>>>,
    <<"chest_pain", <<"chest ache", "heart pain", "chest discomfort">>>>,
    <<"back_pain", <<"backache", "spine pain", "lower back pain">>>>,
    <<"joint_pain", <<"arthritis", "aching joints", "stiff joints">>>>,
    <<"muscle_pain", <<"muscle ache", "sore muscles", "muscle soreness">>>>,
    <<"shortness_of_breath", <<"difficulty breathing", "breathless", "cant breathe">>>>,
    <<"dizziness", <<"dizzy", "lightheaded", "spinning sensation">>>>,
    <<"skin_rash", <<"rash", "skin irritation", "red skin", "skin problem">>>>,
    <<"sore_throat", <<"throat pain", "painful throat", "throat ache">>>>,
    <<"runny_nose", <<"blocked nose", "stuffy nose", "nasal congestion">>>>,
    <<"loss_of_appetite", <<"no appetite", "dont want to eat", "not hungry">>>>,
    <<"weight_loss", <<"losing weight", "getting thinner", "weight dropping">>>>,
    <<"anxiety", <<"worried", "anxious", "nervous", "panic", "stress">>>>,
    <<"depression", <<"sad", "low mood", "depressed", "down">>>>,
    <<"insomnia", <<"cant sleep", "sleepless", "trouble sleeping">>>>,
    <<"constipation", <<"blocked up", "cant poop", "hard stools">>>>,
    <<"frequent_urination", <<"peeing a lot", "urinating often", "bathroom often">>>>,
    <<"blurred_vision", <<"vision problems", "cant see clearly", "fuzzy vision">>>>,
    <<"sweating", <<"excessive sweating", "perspiring", "night sweats">>>>,
    <<"chills", <<"cold shivers", "shivering", "feeling cold">>>>,
    <<"swollen_lymph_nodes", <<"swollen glands", "enlarged glands">>>>
>>

\* difflib.SequenceMatcher.find_longest_match without junk (autojunk only
\* applies to sequences of 200 elements or more): the longest block
\* a[i..i+k-1] = b[j..j+k-1] inside a[alo..ahi], b[blo..bhi]; of the longest
\* blocks the one starting earliest in a, and of those the one starting
\* earliest in b.
RECURSIVE CommonLen(_, _, _, _, _, _)
CommonLen(a, i, ahi, b, j, bhi) ==
    IF i > ahi \/ j > bhi \/ Ch(a, i) # Ch(b, j) THEN 0
    ELSE 1 + CommonLen(a, i + 1, ahi, b, j + 1, bhi)

find_longest_match(a, alo, ahi, b, blo, bhi) ==
    LET len == [i \in alo..ahi |-> [j \in blo..bhi |-> CommonLen(a, i, ahi, b, j, bhi)]]
        best == IF alo > ahi \/ blo > bhi THEN 0
                ELSE CHOOSE k \in 0..Len(a) :
                       /\ \A i \in alo..ahi : \A j \in blo..bhi : len[i][j] <= k
                       /\ k > 0 => \E i \in alo..ahi : \E j \in blo..bhi : len[i][j] = k
    IN  IF best = 0 THEN [i |-> alo, j |-> blo, k |-> 0]
        ELSE LET bi == CHOOSE i \in alo..ahi :
                         /\ \E j \in blo..bhi : len[i][j] = best
                         /\ \A i2 \in alo..(i - 1) : \A j \in blo..bhi : len[i2][j] < best
                 bj == CHOOSE j \in blo..bhi :
                         /\ len[bi][j] = best
                         /\ \A j2 \in blo..(j - 1) : len[bi][j2] < best
             IN  [i |-> bi, j |-> bj, k |-> best]

\* The number of matched characters summed over get_matching_blocks():
\* the longest block, then recursively the pieces to its left and right.
RECURSIVE MatchCount(_, _, _, _, _, _)
MatchCount(a, alo, ahi, b, blo, bhi) ==
    IF alo > ahi \/ blo > bhi THEN 0
    ELSE LET m == find_longest_match(a, alo, ahi, b, blo, bhi)
         IN  IF m.k = 0 THEN 0
             ELSE m.k + MatchCount(a, alo, m.i - 1, b, blo, m.j - 1)
                      + MatchCount(a, m.i + m.k, ahi, b, m.j + m.k, bhi)

\* SequenceMatcher.ratio() = 2.0 * matches / (len(a) + len(b)) as the pair
\* <<numerator, denominator>>; get_close_matches sets seq2 to the word and
\* seq1 to the candidate, so a is the candidate.
Ratio(candidate, word) ==
    <<2 * MatchCount(candidate, 1, Len(candidate), word, 1, Len(word)),
      Len(candidate) + Len(word)>>

\* The cutoff of get_close_matches, 0.7, as tenths.
FuzzyCutoffTenths == 7

\* ratio >= cutoff (also when both strings are empty: ratio() is then 1.0).
AtLeastCutoff(r) ==
    IF r[2] = 0 THEN TRUE ELSE 10 * r[1] >= FuzzyCutoffTenths * r[2]

\* <<score1, x1>> > <<score2, x2>> as Python orders the tuples that
\* heapq.nlargest ranks.
ScoredGreater(r1, x1, r2, x2) ==
    \/ r1[1] * r2[2] > r2[1] * r1[2]
    \/ r1[1] * r2[2] = r2[1] * r1[2] /\ StrLess(x2, x1)

\* get_close_matches ranking by the score alone, the first of the
\* possibilities winning a tie.
get_close_matches_stable(word, possibilities) ==
    LET score == [n \in 1..Len(possibilities) |-> Ratio(possibilities[n], word)]
        ok == {n \in 1..Len(possibilities) : AtLeastCutoff(score[n])}
    IN  IF ok = {} THEN <<>>
        ELSE <<possibilities[CHOOSE n \in ok :
                 /\ \A m \in ok : score[m][1] * score[n][2] <= score[n][1] * score[m][2]
                 /\ \A m \in ok : m < n =>
                       score[m][1] * score[n][2] < score[n][1] * score[m][2]]>>

\* difflib.get_close_matches(word, possibilities, n=1, cutoff=0.7): the
\* candidates scoring at least the cutoff, best first, at most one of them.
get_close_matches(word, possibilities) ==
    LET score == [n \in 1..Len(possibilities) |-> Ratio(possibilities[n], word)]
        ok == {n \in 1..Len(possibilities) : AtLeastCutoff(score[n])}
    IN  IF ok = {} THEN <<>>
        ELSE <<possibilities[CHOOSE n \in ok :
                 \A m \in ok : possibilities[m] = possibilities[n]
                     \/ ScoredGreater(score[n], possibilities[n],
                                      score[m], possibilities[m])]>>

\* The synonym stage without the test that the official symptom is in the
\* vocabulary.
SynonymHitsUnchecked(text, vocab) ==
    {n \in 1..Len(SYMPTOM_SYNONYMS) :
        \E k \in 1..Len(SYMPTOM_SYNONYMS[n][2]) : Contains(SYMPTOM_SYNONYMS[n][2][k], text)}

\* The synonym stage comparing the text with a phrasing for equality
\* instead of looking for the phrasing inside the text.
SynonymHitsWholeText(text, vocab) ==
    {n \in 1..Len(SYMPTOM_SYNONYMS) :
        /\ \E k \in 1..Len(SYMPTOM_SYNONYMS[n][2]) : SYMPTOM_SYNONYMS[n][2][k] = text
        /\ SYMPTOM_SYNONYMS[n][1] \in Range(vocab)}

\* The synonym stage for one text: the first table entry one of whose
\* phrasings occurs in the text and whose official symptom is in the
\* vocabulary (an entry whose official symptom is not does not end the scan).
SynonymHits(text, vocab) ==
    {n \in 1..Len(SYMPTOM_SYNONYMS) :
        /\ \E k \in 1..Len(SYMPTOM_SYNONYMS[n][2]) : Contains(SYMPTOM_SYNONYMS[n][2][k], text)
        /\ SYMPTOM_SYNONYMS[n][1] \in Range(vocab)}

\* The partial stage for one text: the vocabulary positions one of whose
\* words, longer than 3 characters, occurs in the text.
PartialMinWordLen == 3

\* The partial stage keeping only the positions whose matching word is the
\* longest found.
PartialHitsLongest(text, vocab) ==
    LET found == [n \in 1..Len(vocab) |->
                    LET symptom_words == WordSplit(Replace(vocab[n], "_", " "))
                    IN  {Len(symptom_words[k]) : k \in
                           {j \in 1..Len(symptom_words) :
                               /\ Len(symptom_words[j]) > PartialMinWordLen
                               /\ Contains(symptom_words[j], text)}}]
    IN  {n \in 1..Len(vocab) :
            /\ found[n] # {}
            /\ \A m \in 1..Len(vocab) : \A x \in found[m] : \E y \in found[n] : x <= y}

PartialHits(text, vocab) ==
    {n \in 1..Len(vocab) :
        LET symptom_words == WordSplit(Replace(vocab[n], "_", " "))
        IN  \E k \in 1..Len(symptom_words) :
              /\ Len(symptom_words[k]) > PartialMinWordLen
              /\ Contains(symptom_words[k], text)}

Min(S) == CHOOSE x \in S : \A y \in S : x <= y

Max(a, b) == IF a >= b THEN a ELSE b

\* The loop body with the partial stage tried before the fuzzy stage.
ResolveTextPartialFirst(raw, vocab) ==
    LET text == Strip(raw)
        clean_text == clean_symptom(text)
        syn == SynonymHits(text, vocab)
        close_matches == get_close_matches(Replace(text, " ", "_"), vocab)
        part == PartialHits(text, vocab)
    IN  IF text = "" THEN [stage |-> "skip", token |-> ""]
        ELSE IF clean_text \in Range(vocab) THEN [stage |-> "exact", token |-> clean_text]
        ELSE IF syn # {} THEN [stage |-> "synonym", token |-> SYMPTOM_SYNONYMS[Min(syn)][1]]
        ELSE IF part # {} THEN [stage |-> "partial", token |-> vocab[Min(part)]]
        ELSE IF close_matches # <<>> THEN [stage |-> "fuzzy", token |-> close_matches[1]]
        ELSE [stage |-> "none", token |-> ""]

\* One pass of the loop body of map_natural_language_symptoms over a text of
\* symptom_texts: the stage that accepted it and the token it added.
ResolveText(raw, vocab) ==
    LET text == Strip(raw)
        clean_text == clean_symptom(text)
        syn == SynonymHits(text, vocab)
        close_matches == get_close_matches(Replace(text, " ", "_"), vocab)
        part == PartialHits(text, vocab)
    IN  IF text = "" THEN [stage |-> "skip", token |-> ""]
        ELSE IF clean_text \in Range(vocab) THEN [stage |-> "exact", token |-> clean_text]
        ELSE IF syn # {} THEN [stage |-> "synonym", token |-> SYMPTOM_SYNONYMS[Min(syn)][1]]
        ELSE IF close_matches # <<>> THEN [stage |-> "fuzzy", token |-> close_matches[1]]
        ELSE IF part # {} THEN [stage |-> "partial", token |-> vocab[Min(part)]]
        ELSE [stage |-> "none", token |-> ""]

\* symptom_texts: a str is lowered and split on the delimiters, the elements
\* of a list are lowered and not split.
symptom_texts(text_symptoms) ==
    IF text_symptoms.kind = "str" THEN ReSplit(Lower(text_symptoms.text))
    ELSE [i \in 1..Len(text_symptoms.items) |-> Lower(text_symptoms.items[i])]

\* The loop of map_natural_language_symptoms: what became of every text of
\* symptom_texts.
Resolutions(text_symptoms, vocab) ==
    LET texts == symptom_texts(text_symptoms)
    IN  {[text |-> texts[i]] @@ ResolveText(texts[i], vocab) : i \in 1..Len(texts)}

\* The tokens the loop added to mapped_symptoms.
Tokens(resolutions) ==
    {r.token : r \in {q \in resolutions : q.stage \notin {"skip", "none"}}}

\* def map_natural_language_symptoms(text_symptoms): the set mapped_symptoms
\* (the list the function returns holds it in an unspecified order).
map_natural_language_symptoms(text_symptoms, vocab) ==
    Tokens(Resolutions(text_symptoms, vocab))

(***************************************************************************)
(* The source tables and the startup computations                          *)
(***************************************************************************)

\* The value None of the globals before startup.
None == [none |-> TRUE]

\* n copies of a row.
Times(n, row) == [i \in 1..n |-> row]

\* Cell texts pandas.read_csv reads as NaN (the empty field and the default
\* NA markers the model's tables use).
NaValues == {"", "NaN", "nan", "NA", "N/A", "NULL", "null"}

\* The contents the four CSV files can have.  main: one row per example, the
\* Disease cell and the Symptom_* cells as written in the file; desc,
\* precaution, severity: the auxiliary tables; missing: the files absent
\* from disk.
FluRow == [Disease |-> "flu", cells |-> <<"Fever", " cough", "fatigue ", "">>]
HeartRow == [Disease |-> " heart attack", cells |-> <<"chest_pain", "shortness of breath", "NaN", "  ">>]
MigraineRow == [Disease |-> "Migraine", cells |-> <<"headache", "High Fever", "temp. high", "neck_stiffness">>]
GastroRow == [Disease |-> "gastroenteritis", cells |-> <<"abdominal_pain", "nausea", "vomiting", "fever">>]
SpondylosisRow == [Disease |-> "cervical spondylosis", cells |-> <<"back_pain", "weakness in limbs", "neck_pain", "dizziness">>]

\* A row of a disease recorded with the one symptom dizziness.
DizzinessRow(disease) == [Disease |-> disease, cells |-> <<"dizziness", "", "", "">>]

DescRows ==
    <<[Disease |-> "Flu", Description |-> "A viral infection"],
      [Disease |-> "heart attack", Description |-> "Blocked blood flow"],
      [Disease |-> "Migraine", Description |-> "Recurring headache"]>>

PrecautionRows ==
    <<[Disease |-> "Flu", cells |-> <<"rest", "drink fluids", "", "">>],
      [Disease |-> "Heart Attack", cells |-> <<"call ambulance", "chew aspirin", "keep calm", "">>]>>

SeverityRows ==
    <<[Symptom |-> "fever", weight |-> 5],
      [Symptom |-> "cough", weight |-> 4],
      [Symptom |-> "fatigue", weight |-> 4],
      [Symptom |-> "chest_pain", weight |-> 7],
      [Symptom |-> " Headache", weight |-> 3],
      [Symptom |-> "high_fever", weight |-> 7],
      [Symptom |-> "nausea", weight |-> 1],
      [Symptom |-> "vomiting", weight |-> 2],
      [Symptom |-> "fever", weight |-> 1]>>

SourceTables ==
    <<[main |-> Times(5, FluRow) \o Times(5, HeartRow),
       desc |-> DescRows, precaution |-> PrecautionRows,
       severity |-> SeverityRows, missing |-> {}],
      [main |-> Times(5, FluRow) \o Times(5, HeartRow) \o Times(5, MigraineRow),
       desc |-> DescRows, precaution |-> PrecautionRows,
       severity |-> SeverityRows, missing |-> {}],
      [main |-> Times(5, GastroRow) \o Times(5, MigraineRow),
       desc |-> DescRows, precaution |-> <<>>,
       severity |-> <<>>, missing |-> {}],
      [main |-> Times(5, FluRow) \o Times(1, HeartRow),
       desc |-> DescRows, precaution |-> PrecautionRows,
       severity |-> SeverityRows, missing |-> {}],
      [main |-> Times(5, FluRow) \o Times(5, HeartRow),
       desc |-> DescRows, precaution |-> PrecautionRows,
       severity |-> SeverityRows, missing |-> {"severity"}],
      [main |-> Times(5, FluRow) \o Times(5, SpondylosisRow),
       desc |-> DescRows, precaution |-> PrecautionRows,
       severity |-> SeverityRows, missing |-> {}],
      [main |-> Times(5, DizzinessRow("vertigo")) \o Times(5, DizzinessRow("anemia"))
                    \o Times(5, DizzinessRow("hypotension"))
                    \o Times(5, DizzinessRow("dehydration"))
                    \o Times(5, DizzinessRow("Migraine")),
       desc |-> DescRows, precaution |-> PrecautionRows,
       severity |-> SeverityRows, missing |-> {}]>>

Contents == 1..Len(SourceTables)

\* The symptoms of a row without the test clean_symptom(s) != "".
RECURSIVE RowSymptomsUnfiltered(_)
RowSymptomsUnfiltered(cells) ==
    IF Len(cells) = 0 THEN <<>>
    ELSE (IF Head(cells) \notin NaValues
          THEN <<clean_symptom(Head(cells))>> ELSE <<>>)
         \o RowSymptomsUnfiltered(Tail(cells))

\* load_data, the main table: dataset["symptoms"] is the list of the cleaned
\* non-NaN cells of the row that are not empty after cleaning, and
\* dataset["Disease"] the standardized disease name (NaN becomes "").
RECURSIVE RowSymptoms(_)
RowSymptoms(cells) ==
    IF Len(cells) = 0 THEN <<>>
    ELSE (IF Head(cells) \notin NaValues /\ clean_symptom(Head(cells)) # ""
          THEN <<clean_symptom(Head(cells))>> ELSE <<>>)
         \o RowSymptoms(Tail(cells))

CleanCell(c) == IF c \in NaValues THEN "" ELSE clean_symptom(c)

CleanDisease(d) ==
    IF d \in NaValues THEN "" ELSE clean_symptom(standardize_disease_name(d))

LoadMain(rows) ==
    [i \in 1..Len(rows) |->
        [Disease |-> IF rows[i].Disease \in NaValues THEN ""
                     ELSE standardize_disease_name(rows[i].Disease),
         symptoms |-> RowSymptoms(rows[i].cells)]]

\* load_data, the description and precaution tables: Disease is
\* standardized, and then every text column, Disease included, goes through
\* clean_symptom.
LoadDesc(rows) ==
    [rows |-> [i \in 1..Len(rows) |->
        [Disease |-> CleanDisease(rows[i].Disease),
         Description |-> CleanCell(rows[i].Description)]]]

LoadPrecaution(rows) ==
    [rows |-> [i \in 1..Len(rows) |->
        [Disease |-> CleanDisease(rows[i].Disease),
         cells |-> [k \in 1..Len(rows[i].cells) |-> CleanCell(rows[i].cells[k])]]]]

\* load_data leaves the severity table as read.
LoadSeverity(rows) == [rows |-> rows]

\* load_data raises FileNotFoundError when one of the four files is absent.
LoadRaises(c) == SourceTables[c].missing # {}

\* train_model: all_symptoms = sorted({sym for sublist in
\* dataset["symptoms"] for sym in sublist}).
all_symptoms(dataset) ==
    SortedSeq(UNION {Range(dataset[i].symptoms) : i \in 1..Len(dataset)})

\* LabelEncoder().fit: classes_ is the sorted sequence of the distinct
\* disease names.
LabelClasses(dataset) == SortedSeq({dataset[i].Disease : i \in 1..Len(dataset)})

ClassCount(dataset, d) == Cardinality({i \in 1..Len(dataset) : dataset[i].Disease = d})

\* The hold-out of train_test_split(test_size=0.2): ceil(0.2 * n) rows
\* (exact for the table sizes of SourceTables).
TestSizeFifths == 1

NTest(n) == (TestSizeFifths * n + 4) \div 5

\* cross_val_score(model, X, y, cv=5)
CvFolds == 5

\* train_model raises: the stratified split needs at least 2 rows of every
\* class and at least one row per class on both sides of the split, the
\* forest at least one feature column, and the 5-fold stratified
\* cross-validation a class with at least 5 rows.
TrainRaises(dataset) ==
    LET n == Len(dataset)
        classes == Range(LabelClasses(dataset))
    IN  \/ n = 0
        \/ all_symptoms(dataset) = <<>>
        \/ n - NTest(n) = 0
        \/ \E d \in classes : ClassCount(dataset, d) < 2
        \/ NTest(n) < Cardinality(classes)
        \/ n - NTest(n) < Cardinality(classes)
        \/ \A d \in classes : ClassCount(dataset, d) < CvFolds

\* The fitted classifier, by what model.fit(X_train, y_train) is given: the
\* number of feature columns, the encoded classes, and the number of rows
\* of X_train, which is the table without the hold-out of the split.
FittedModel(dataset) ==
    [n_features_in_ |-> Len(all_symptoms(dataset)),
     n_classes_ |-> Len(LabelClasses(dataset)),
     n_samples |-> Len(dataset) - NTest(Len(dataset))]

(***************************************************************************)
(* The prediction handler                                                  *)
(***************************************************************************)

VARIABLES
    pc,             \* where the process is: "start", "loaded", "serving", "exited"
    files,          \* the content of the four CSV files on disk (an index of SourceTables)
    dataset,        \* __main__'s local: the cleaned main table
    MODEL, SYMPTOM_LIST, LABEL_ENCODER, DESC_DF, PRECAUTION_DF, SEVERITY_DF,
    resp,           \* the response of the request being answered
    written,        \* the files the process has written since it was installed
    startups,       \* history: one record per startup that reached app.run
    run,            \* history: which process run this is, and what it has done
    normalized,     \* a string and what the calls of clean_symptom made of it
    doctors_availability, appointments, consultations, waiting_rooms,
                    \* the dictionaries of the TelemedicinePlatform instance
    now,            \* the last reading of datetime.now(), in minutes since the
                    \* platform was constructed
    result,         \* what the last call of a service returned
    stress_assessments,
                    \* MentalHealthAI: the assessments stored for each user
    clock,          \* the wall clock the medication manager reads, in ticks
    added,          \* history: what the successful add_medication calls returned
    recent_vitals,  \* the readings handed to _generate_alerts
    alerts          \* history: the lists of alerts the calls of _generate_alerts returned

globals == <<MODEL, SYMPTOM_LIST, LABEL_ENCODER, DESC_DF, PRECAUTION_DF, SEVERITY_DF>>

\* The state of the four service modules app.py imports.
telemedicine == <<doctors_availability, appointments, consultations, waiting_rooms, now>>
mental_health == <<stress_assessments>>
medication == <<clock, added>>
vital_signs == <<recent_vitals, alerts>>
services == <<telemedicine, result, mental_health, medication, vital_signs>>

vars == <<pc, files, dataset, MODEL, SYMPTOM_LIST, LABEL_ENCODER, DESC_DF,
          PRECAUTION_DF, SEVERITY_DF, resp, written, normalized, services, startups, run>>

\* Probabilities and confidences are counted in hundredths.
One == 100

\* enhance_prediction_with_context: the boost, 0.2.
Boost == 20

\* symptom_combinations, in dict order.
symptom_combinations ==
    <<{"fever", "cough", "fatigue"},
      {"headache", "fever", "neck_stiffness"},
      {"chest_pain", "shortness_of_breath"},
      {"abdominal_pain", "nausea", "vomiting"}>>

\* The boost without the break: every combination found among the
\* symptoms raises the confidence.
RECURSIVE BoostEach(_, _, _)
BoostEach(symptoms, confidence, n) ==
    IF n > Len(symptom_combinations) THEN confidence
    ELSE BoostEach(symptoms,
                   IF symptom_combinations[n] \subseteq symptoms
                   THEN (IF confidence + Boost < One THEN confidence + Boost ELSE One)
                   ELSE confidence,
                   n + 1)

enhance_prediction_repeated(symptoms, prediction, confidence) ==
    BoostEach(symptoms, confidence, 1)

\* def enhance_prediction_with_context(symptoms, prediction, confidence):
\* the first combination all of whose symptoms are among the matched ones
\* raises the confidence by 0.2, capped at 1.0.
enhance_prediction_with_context(symptoms, prediction, confidence) ==
    IF \E n \in 1..Len(symptom_combinations) : symptom_combinations[n] \subseteq symptoms
    THEN IF confidence + Boost < One THEN confidence + Boost ELSE One
    ELSE confidence

\* remedy_map of generate_home_remedies.
remedy_map == <<
    <<"fever", <<"Rest and stay hydrated", "Take paracetamol as directed", "Use cool compresses">>>>,
    <<"cough", <<"Drink warm honey and lemon tea", "Stay hydrated", "Use a humidifier">>>>,
    <<"headache", <<"Rest in a dark room", "Apply cold compress", "Stay hydrated">>>>,
    <<"fatigue", <<"Get adequate sleep", "Eat nutritious meals", "Light exercise">>>>,
    <<"nausea", <<"Eat small frequent meals", "Drink ginger tea", "Avoid strong odors">>>>,
    <<"abdominal_pain", <<"Apply warm compress", "Eat bland foods", "Stay hydrated">>>>,
    <<"sore_throat", <<"Gargle with warm salt water", "Drink warm liquids", "Use throat lozenges">>>>,
    <<"muscle_pain", <<"Apply heat or ice", "Gentle stretching", "Rest the affected area">>>>,
    <<"anxiety", <<"Practice deep breathing", "Meditation", "Regular exercise">>>>,
    <<"insomnia", <<"Maintain sleep schedule", "Avoid caffeine before bed", "Relaxation techniques">>>>
>>

GeneralRemedies ==
    {"Consult a healthcare professional if symptoms persist", "Monitor your symptoms"}

\* The remedies limit of list(remedies)[:6] and of remedy_map[symptom][:2].
MaxRemedies == 6

PerSymptomRemedies == 2

\* The set remedies that generate_home_remedies builds before it cuts it.
RemedyPool(symptoms) ==
    UNION {{remedy_map[n][2][k] : k \in 1..PerSymptomRemedies} :
              n \in {m \in 1..Len(remedy_map) : remedy_map[m][1] \in symptoms}}
    \cup GeneralRemedies

\* def generate_home_remedies(symptoms, disease): list(remedies)[:6] keeps
\* the first 6 elements in the iteration order of a set of strings, which
\* the process's hash seed decides: any 6 of them (all, if there are fewer).
generate_home_remedies(symptoms, disease) ==
    LET pool == RemedyPool(symptoms)
        n == IF Cardinality(pool) < MaxRemedies THEN Cardinality(pool) ELSE MaxRemedies
    IN  {S \in SUBSET pool : Cardinality(S) = n}

\* The severity breakpoints of predict (incoming side), on the average weight.
CriticalAvg == 5

HighAvg == 4

MediumAvg == 2

\* The weight predict adds for a symptom: that of the first row of
\* SEVERITY_DF whose Symptom, stripped and lowered, equals the cleaned
\* symptom; nothing when there is no such row.
SeverityWeight(severity_df, symptom) ==
    LET symptom_clean == Replace(Lower(Strip(symptom)), " ", "_")
        weight_matches == {n \in 1..Len(severity_df.rows) :
                              Lower(Strip(severity_df.rows[n].Symptom)) = symptom_clean}
    IN  IF weight_matches = {} THEN 0 ELSE severity_df.rows[Min(weight_matches)].weight

RECURSIVE SumWeights(_, _)
SumWeights(severity_df, symptoms) ==
    IF symptoms = {} THEN 0
    ELSE LET s == CHOOSE x \in symptoms : TRUE
         IN  SeverityWeight(severity_df, s) + SumWeights(severity_df, symptoms \ {s})

\* The severity with the default "Unknown" where the table is empty.
SeverityInfoUnknown(severity_df, mapped_symptoms) ==
    LET total_symptoms == Cardinality(mapped_symptoms)
        severity_score == SumWeights(severity_df, mapped_symptoms)
    IN  IF Len(severity_df.rows) > 0 /\ total_symptoms > 0
        THEN IF severity_score >= CriticalAvg * total_symptoms THEN "critical"
             ELSE IF severity_score >= HighAvg * total_symptoms THEN "high"
             ELSE IF severity_score >= MediumAvg * total_symptoms THEN "medium"
             ELSE "low"
        ELSE "Unknown"

\* The severity with the score assigned (=) instead of accumulated (+=):
\* the weight of one symptom over the number of symptoms.
SeverityInfoOverwritten(severity_df, mapped_symptoms) ==
    LET total_symptoms == Cardinality(mapped_symptoms)
        severity_score ==
            IF mapped_symptoms = {} THEN 0
            ELSE SeverityWeight(severity_df, CHOOSE s \in mapped_symptoms :
                    \A t \in mapped_symptoms :
                        SeverityWeight(severity_df, t) <= SeverityWeight(severity_df, s))
    IN  IF Len(severity_df.rows) > 0 /\ total_symptoms > 0
        THEN IF severity_score >= CriticalAvg * total_symptoms THEN "critical"
             ELSE IF severity_score >= HighAvg * total_symptoms THEN "high"
             ELSE IF severity_score >= MediumAvg * total_symptoms THEN "medium"
             ELSE "low"
        ELSE "medium"

\* predict, "Calculate severity based on matched symptom weights": the tier
\* of the average weight over all matched symptoms, "medium" when the table
\* is empty or nothing was matched.
SeverityInfo(severity_df, mapped_symptoms) ==
    LET total_symptoms == Cardinality(mapped_symptoms)
        severity_score == SumWeights(severity_df, mapped_symptoms)
    IN  IF Len(severity_df.rows) > 0 /\ total_symptoms > 0
        THEN IF severity_score >= CriticalAvg * total_symptoms THEN "critical"
             ELSE IF severity_score >= HighAvg * total_symptoms THEN "high"
             ELSE IF severity_score >= MediumAvg * total_symptoms THEN "medium"
             ELSE "low"
        ELSE "medium"

\* The HEAD side of the same region of predict (lines 523-542).  There
\* load_data has put the table's Symptom column through clean_symptom; the
\* row of a symptom is the first whose Symptom contains a match of the
\* symptom read as a regular expression, letter case ignored; the tier is
\* that of the summed weight, "low" when the table is empty.
CriticalSum == 15

HighSum == 10

MediumSum == 5

\* re.search(pattern, s) for a pattern of literal characters and "." (any
\* character but a newline).
RECURSIVE RegexMatchAt(_, _, _)
RegexMatchAt(pattern, s, i) ==
    IF Len(pattern) = 0 THEN TRUE
    ELSE IF i > Len(s) THEN FALSE
    ELSE /\ \/ Ch(pattern, 1) = Ch(s, i)
            \/ Ch(pattern, 1) = "." /\ Ch(s, i) # "\n"
         /\ RegexMatchAt(Tail(pattern), s, i + 1)

RegexSearch(pattern, s) == \E i \in 1..(Len(s) + 1) : RegexMatchAt(pattern, s, i)

SeverityWeightHEAD(severity_df, symptom) ==
    LET weight_matches == {n \in 1..Len(severity_df.rows) :
                              RegexSearch(Lower(symptom),
                                          Lower(clean_symptom(severity_df.rows[n].Symptom)))}
    IN  IF weight_matches = {} THEN 0 ELSE severity_df.rows[Min(weight_matches)].weight

RECURSIVE SumWeightsHEAD(_, _)
SumWeightsHEAD(severity_df, symptoms) ==
    IF symptoms = {} THEN 0
    ELSE LET s == CHOOSE x \in symptoms : TRUE
         IN  SeverityWeightHEAD(severity_df, s) + SumWeightsHEAD(severity_df, symptoms \ {s})

SeverityInfoHEAD(severity_df, valid_symptoms) ==
    LET total_weight == SumWeightsHEAD(severity_df, valid_symptoms)
    IN  IF Len(severity_df.rows) > 0 /\ valid_symptoms # {}
        THEN IF total_weight >= CriticalSum THEN "critical"
             ELSE IF total_weight >= HighSum THEN "high"
             ELSE IF total_weight >= MediumSum THEN "medium"
             ELSE "low"
        ELSE "low"

\* predict, "Get description": the Description of the first row of DESC_DF
\* whose Disease, stripped and title-cased, equals the disease title.
DescriptionOf(desc_df, disease_title) ==
    LET desc_matches == {n \in 1..Len(desc_df.rows) :
                            Title(Strip(desc_df.rows[n].Disease), FALSE) = disease_title}
    IN  IF desc_matches = {} THEN "No description available"
        ELSE desc_df.rows[Min(desc_matches)].Description

RECURSIVE NonBlank(_)
NonBlank(cells) ==
    IF Len(cells) = 0 THEN <<>>
    ELSE (IF Strip(Head(cells)) # "" THEN <<Head(cells)>> ELSE <<>>) \o NonBlank(Tail(cells))

\* predict, "Get precautions": the non-blank cells after the Disease column
\* of the first matching row of PRECAUTION_DF.
PrecautionsOf(precaution_df, disease_title) ==
    LET prec_row == {n \in 1..Len(precaution_df.rows) :
                        Title(Strip(precaution_df.rows[n].Disease), FALSE) = disease_title}
    IN  IF prec_row = {} THEN <<>>
        ELSE NonBlank(precaution_df.rows[Min(prec_row)].cells)

\* The HEAD side of load_data (lines 277-285) for the precaution table: the
\* Disease column stays as read, the other text cells are stripped and NaN
\* becomes "".
LoadPrecautionHEAD(rows) ==
    [rows |-> [i \in 1..Len(rows) |->
        [Disease |-> IF rows[i].Disease \in NaValues THEN "" ELSE rows[i].Disease,
         cells |-> [k \in 1..Len(rows[i].cells) |->
                      IF rows[i].cells[k] \in NaValues THEN ""
                      ELSE Strip(rows[i].cells[k])]]]]

\* The HEAD side of predict, "Get home remedies" (lines 544-560): nothing
\* when the disease has no precautions, else four general remedies and two
\* more by the first keyword found in the lowered disease title.
HomeRemediesHEAD(precautions, disease_title) ==
    LET title == Lower(disease_title)
    IN  IF precautions = <<>> THEN <<>>
        ELSE <<"Rest and get adequate sleep",
               "Stay hydrated by drinking plenty of water",
               "Maintain good hygiene",
               "Follow a balanced diet">>
             \o (IF Contains("fever", title)
                 THEN <<"Apply cool compress", "Take lukewarm baths">>
                 ELSE IF Contains("cold", title) \/ Contains("cough", title)
                 THEN <<"Drink warm fluids", "Use honey for sore throat">>
                 ELSE IF Contains("headache", title)
                 THEN <<"Apply cold or warm compress", "Practice relaxation techniques">>
                 ELSE <<>>)

\* predict handing a list to the resolver whole: its elements are lowered
\* and not split.
RequestResolutionsWholeList(input_symptoms, vocab) == Resolutions(input_symptoms, vocab)

\* predict, lines 466-477: a str goes to the resolver whole; every element
\* of a list goes to it as a str of its own, and the results are united.
RequestResolutions(input_symptoms, vocab) ==
    IF input_symptoms.kind = "str"
    THEN Resolutions(input_symptoms, vocab)
    ELSE UNION {Resolutions([kind |-> "str", text |-> input_symptoms.items[i]], vocab) :
                  i \in 1..Len(input_symptoms.items)}

MappedSymptoms(input_symptoms, vocab) == Tokens(RequestResolutions(input_symptoms, vocab))

\* The feature vector laid out over the vocabulary in reverse order.
FeaturesReversed(mapped_symptoms, vocab) ==
    [i \in 1..Len(vocab) |-> IF vocab[Len(vocab) + 1 - i] \in mapped_symptoms THEN 1 ELSE 0]

\* features = [1 if sym in mapped_symptoms else 0 for sym in SYMPTOM_LIST]
Features(mapped_symptoms, vocab) ==
    [i \in 1..Len(vocab) |-> IF vocab[i] \in mapped_symptoms THEN 1 ELSE 0]

\* sample_symptoms[:10] of SYMPTOM_LIST[:20]
SuggestionCount == 10

FirstN(s, n) == SubSeq(s, 1, IF Len(s) < n THEN Len(s) ELSE n)

\* numpy argmax: the first position holding the maximum.
ArgMax(probabilities) ==
    CHOOSE i \in DOMAIN probabilities :
        /\ \A j \in DOMAIN probabilities : probabilities[j] <= probabilities[i]
        /\ \A j \in 1..(i - 1) : probabilities[j] < probabilities[i]

\* A response: the JSON fields predict returns, and for the record the
\* request it answers (received_input), what the resolver did with each of
\* its texts (resolved), the feature vector, whether the classifier was
\* called (queried) and the probabilities.max() it returned (probability).
NoDetail == [disease |-> "", description |-> "", precautions |-> <<>>,
             home_remedies |-> {}, severity |-> "", matched_symptoms |-> {},
             confidence |-> 0, probability |-> 0, features |-> <<>>,
             queried |-> FALSE, resolved |-> {}]

ErrorResponse(request, status, error) ==
    [status |-> status, error |-> error, suggestions |-> <<>>,
     received_input |-> request] @@ NoDetail

\* The requests in whose handling an exception is raised, which the
\* handler's `except Exception' turns into the 500 response: a body that
\* is not parseable as JSON (request.get_json raises BadRequest) and a body
\* that is a JSON array holding "symptoms" (data.get raises AttributeError).
RaisingKinds == {"malformed", "array"}

\* The response of predict short of the classifier: a request that is not
\* JSON or carries no "symptoms", a request whose handling raises, symptoms
\* that are neither str nor list, and symptoms of which nothing could be
\* mapped.
EarlyResponse(request, resolutions, vocab) ==
    IF request.kind = "not_json" THEN ErrorResponse(request, 400, "Request must be JSON")
    ELSE IF request.kind \in RaisingKinds THEN ErrorResponse(request, 500, "Prediction failed")
    ELSE IF request.kind = "absent" THEN ErrorResponse(request, 400, "No symptoms provided")
    ELSE IF request.kind \notin {"str", "list"}
    THEN ErrorResponse(request, 400, "Symptoms must be string or array")
    ELSE [ErrorResponse(request, 400, "No valid symptoms could be mapped from your input")
            EXCEPT !.suggestions = FirstN(vocab, SuggestionCount),
                   !.resolved = resolutions]

(***************************************************************************)
(* Requests                                                                *)
(***************************************************************************)

\* What clients send as symptoms: every token of the vocabularies of
\* SourceTables as it stands, free text, misspellings, and text that
\* matches nothing.
Phrases ==
    {"fever", "cough", "fatigue", "chest_pain", "shortness_of_breath",
     "headache", "high_fever", "neck_stiffness", "temp._high",
     "abdominal_pain", "nausea", "vomiting",
     "back_pain", "weakness_in_limbs", "neck_pain", "dizziness",
     "", "  ", " Fever ", "Chest Pain", "feverr", "hedache", "xyz123",
     "high temperature", "can't breathe", "short breath", "stomach ache",
     "I have a high temperature and can't breathe",
     "I have a high temperature and can't breathe, xyz123",
     "tired and coughing", "neck", "pain", "nack pain", "stiffness high", "fever;cough.fatigue",
     "fever, tired, hedache, neck", "fever, cough, fatigue, headache, neck stiffness",
     "chest pain, short breath", "headache, chest_pain",
     "nausea\nvomiting\r\nabdominal pain"}

\* The phrases requests combine.
JoinPhrases == {"fever", "cough", "tired", "neck", "xyz123"}

\* The longest list of combined phrases.
MaxItems == 2

RECURSIVE SeqsUpTo(_, _)
SeqsUpTo(S, n) ==
    IF n = 0 THEN {<<>>}
    ELSE LET shorter == SeqsUpTo(S, n - 1)
         IN  shorter \cup {Append(s, x) : s \in shorter, x \in S}

RECURSIVE Join(_, _)
Join(items, sep) ==
    IF Len(items) = 0 THEN ""
    ELSE IF Len(items) = 1 THEN items[1]
    ELSE items[1] \o sep \o Join(Tail(items), sep)

ItemLists == SeqsUpTo(JoinPhrases, MaxItems) \cup {<<ph>> : ph \in Phrases}

Texts == Phrases \cup {Join(items, ", ") : items \in SeqsUpTo(JoinPhrases, MaxItems)}

Requests ==
    {[kind |-> "not_json"], [kind |-> "absent"], [kind |-> "other"]}
    \cup {[kind |-> k] : k \in RaisingKinds}
    \cup {[kind |-> "str", text |-> t] : t \in Texts}
    \cup {[kind |-> "list", items |-> s] : s \in ItemLists}

\* The requests the startup scenarios send: one per outcome of predict.
ProbeRequests ==
    {[kind |-> "not_json"],
     [kind |-> "malformed"],
     [kind |-> "str", text |-> "xyz123"],
     [kind |-> "list", items |-> <<"fever", "head ache">>]}

\* The probabilities predict_proba can return, in hundredths: every
\* distribution over the classes on a grid of fifths.
ProbLevels == {0, 20, 40, 60, 80, 100}

RECURSIVE SumSeq(_)
SumSeq(s) == IF Len(s) = 0 THEN 0 ELSE Head(s) + SumSeq(Tail(s))

Distributions(k) == {d \in [1..k -> ProbLevels] : SumSeq(d) = One}

(***************************************************************************)
(* The process                                                             *)
(***************************************************************************)

\* The process runs and the edits of the CSV files a behaviour goes through.
MaxRuns == 2

MaxEdits == 1

\* The services before any of their operations is called, as the
\* specifications of the prediction service leave them.
NoResult == [op |-> "", success |-> FALSE, error |-> ""]

TelemedicineIdle ==
    /\ doctors_availability = <<>>
    /\ appointments = <<>>
    /\ consultations = <<>>
    /\ waiting_rooms = <<>>
    /\ now = 0

MentalHealthIdle == stress_assessments = <<>>

MedicationIdle == clock = 0 /\ added = <<>>

VitalSignsIdle == recent_vitals = <<>> /\ alerts = <<>>

ServicesIdle ==
    /\ TelemedicineIdle
    /\ result = NoResult
    /\ MentalHealthIdle
    /\ MedicationIdle
    /\ VitalSignsIdle

NoResp == [status |-> 0]

\* No string is being normalized.
NoCall == [input |-> "", calls |-> <<>>]

FreshRun(n, edits) ==
    [n |-> n, loads |-> 0, trainings |-> 0, failed |-> FALSE, content |-> 0,
     edits |-> edits]

\* The module-level assignments of app.py, lines 28-35.
InitGlobals ==
    /\ MODEL = None
    /\ SYMPTOM_LIST = <<>>
    /\ LABEL_ENCODER = None
    /\ DESC_DF = None
    /\ PRECAUTION_DF = None
    /\ SEVERITY_DF = None

Init ==
    /\ pc = "start"
    /\ files \in Contents
    /\ dataset = <<>>
    /\ InitGlobals
    /\ resp = NoResp
    /\ written = {}
    /\ startups = <<>>
    /\ run = FreshRun(1, 0)
    /\ normalized = NoCall
    /\ ServicesIdle

\* The startup going on to app.run after load_data raised.
LoadDataServes ==
    /\ pc = "start"
    /\ IF LoadRaises(files)
       THEN /\ pc' = "serving"
            /\ run' = [run EXCEPT !.loads = @ + 1, !.failed = TRUE]
            /\ UNCHANGED <<dataset, DESC_DF, PRECAUTION_DF, SEVERITY_DF>>
       ELSE /\ pc' = "loaded"
            /\ run' = [run EXCEPT !.loads = @ + 1, !.content = files]
            /\ dataset' = LoadMain(SourceTables[files].main)
            /\ DESC_DF' = LoadDesc(SourceTables[files].desc)
            /\ PRECAUTION_DF' = LoadPrecaution(SourceTables[files].precaution)
            /\ SEVERITY_DF' = LoadSeverity(SourceTables[files].severity)
    /\ UNCHANGED <<files, MODEL, SYMPTOM_LIST, LABEL_ENCODER, resp, written, normalized, services, startups>>

\* __main__, line 1616: dataset, DESC_DF, PRECAUTION_DF, SEVERITY_DF =
\* load_data().  load_data raises when a file is missing; __main__ logs the
\* error and the script ends without reaching app.run.
LoadData ==
    /\ pc = "start"
    /\ IF LoadRaises(files)
       THEN /\ pc' = "exited"
            /\ run' = [run EXCEPT !.loads = @ + 1, !.failed = TRUE]
            /\ UNCHANGED <<dataset, DESC_DF, PRECAUTION_DF, SEVERITY_DF>>
       ELSE /\ pc' = "loaded"
            /\ run' = [run EXCEPT !.loads = @ + 1, !.content = files]
            /\ dataset' = LoadMain(SourceTables[files].main)
            /\ DESC_DF' = LoadDesc(SourceTables[files].desc)
            /\ PRECAUTION_DF' = LoadPrecaution(SourceTables[files].precaution)
            /\ SEVERITY_DF' = LoadSeverity(SourceTables[files].severity)
    /\ UNCHANGED <<files, MODEL, SYMPTOM_LIST, LABEL_ENCODER, resp, written, normalized, services, startups>>

\* What a startup that trained leaves in the globals and in the history.
Trained(table, trainings) ==
    /\ MODEL' = FittedModel(table)
    /\ SYMPTOM_LIST' = all_symptoms(table)
    /\ LABEL_ENCODER' = [classes_ |-> LabelClasses(table)]
    /\ startups' = Append(startups,
           [run |-> run.n, content |-> run.content, trainings |-> trainings,
            vocabulary |-> all_symptoms(table),
            classes |-> LabelClasses(table),
            model |-> FittedModel(table)])

\* __main__, lines 1617-1623: MODEL, SYMPTOM_LIST, LABEL_ENCODER =
\* train_model(dataset), then app.run.  There is no other path to app.run:
\* nothing is read from or written to a cache.  When train_model raises,
\* __main__ logs the error and the script ends.
TrainModel ==
    /\ pc = "loaded"
    /\ IF TrainRaises(dataset)
       THEN /\ pc' = "exited"
            /\ run' = [run EXCEPT !.trainings = @ + 1, !.failed = TRUE]
            /\ UNCHANGED <<MODEL, SYMPTOM_LIST, LABEL_ENCODER, startups>>
       ELSE /\ pc' = "serving"
            /\ run' = [run EXCEPT !.trainings = @ + 1]
            /\ Trained(dataset, run.trainings + 1)
    /\ UNCHANGED <<files, dataset, DESC_DF, PRECAUTION_DF, SEVERITY_DF, resp, written, normalized, services>>

\* predict, HEAD side: `if confidence_score < 0.3', in hundredths.
MinimumConfidence == 30

\* predict, HEAD side of the conflict of lines 522-594: confidence_score is
\* predict_proba(...).max() again, raised to 0.3 when it is below 0.3,
\* without the boost.  The value is computed and not returned: the
\* "confidence" of a 200 response is the confidence of line 496 (the
\* return of the HEAD side names valid_symptoms, which a process that got
\* past map_natural_language_symptoms never defines).
confidence_score(probability) ==
    IF probability < MinimumConfidence
    THEN Max(MinimumConfidence, probability)
    ELSE probability

\* def predict(), for one request; probabilities is what
\* MODEL.predict_proba returns for the feature vector.  The "confidence"
\* returned is probabilities.max() as enhance_prediction_with_context
\* leaves it.
PredictResponse(request, resolutions, probabilities, home_remedies) ==
    LET mapped_symptoms == Tokens(resolutions)
        features == Features(mapped_symptoms, SYMPTOM_LIST)
        prediction == ArgMax(probabilities)
        confidence == enhance_prediction_with_context(
                          mapped_symptoms, prediction, probabilities[prediction])
        disease == LABEL_ENCODER.classes_[prediction]
        disease_title == standardize_disease_name(disease)
    IN  [status |-> 200, error |-> "", suggestions |-> <<>>,
         received_input |-> request, resolved |-> resolutions,
         disease |-> disease_title,
         description |-> DescriptionOf(DESC_DF, disease_title),
         precautions |-> PrecautionsOf(PRECAUTION_DF, disease_title),
         home_remedies |-> home_remedies,
         severity |-> SeverityInfo(SEVERITY_DF, mapped_symptoms),
         matched_symptoms |-> mapped_symptoms,
         confidence |-> confidence,
         probability |-> probabilities[prediction],
         features |-> features,
         queried |-> TRUE]

\* predict with a handler of failures that drops the model: after the 500
\* response MODEL is None again.
HandlePredictInvalidating(requests) ==
    /\ pc = "serving"
    /\ resp = NoResp
    /\ \E request \in requests :
         IF request.kind \notin {"str", "list"}
         THEN /\ resp' = EarlyResponse(request, {}, SYMPTOM_LIST)
              /\ MODEL' = IF request.kind \in RaisingKinds THEN None ELSE MODEL
         ELSE /\ MODEL' = MODEL
              /\ \E resolutions \in {RequestResolutions(request, SYMPTOM_LIST)} :
                   IF Tokens(resolutions) = {}
                   THEN resp' = EarlyResponse(request, resolutions, SYMPTOM_LIST)
                   ELSE \E probabilities \in Distributions(Len(LABEL_ENCODER.classes_)) :
                        \E home_remedies \in generate_home_remedies(Tokens(resolutions), "") :
                           resp' = PredictResponse(request, resolutions,
                                                   probabilities, home_remedies)
    /\ UNCHANGED <<pc, files, dataset, SYMPTOM_LIST, LABEL_ENCODER, DESC_DF,
                   PRECAUTION_DF, SEVERITY_DF, written, normalized, services, startups, run>>

\* predict without the test `if not mapped_symptoms'.
HandlePredictUnchecked(requests) ==
    /\ pc = "serving"
    /\ resp = NoResp
    /\ \E request \in requests :
         IF request.kind \notin {"str", "list"}
         THEN resp' = EarlyResponse(request, {}, SYMPTOM_LIST)
         ELSE \E resolutions \in {RequestResolutions(request, SYMPTOM_LIST)} :
              \E probabilities \in Distributions(Len(LABEL_ENCODER.classes_)) :
              \E home_remedies \in generate_home_remedies(Tokens(resolutions), "") :
                 resp' = PredictResponse(request, resolutions, probabilities, home_remedies)
    /\ UNCHANGED <<pc, files, dataset, globals, written, normalized, services, startups, run>>

\* predict with no startup behind it: the handler runs whatever the process
\* has got to.
HandlePredictAnytime(requests) ==
    /\ resp = NoResp
    /\ \E request \in requests :
         IF request.kind \notin {"str", "list"}
         THEN resp' = EarlyResponse(request, {}, SYMPTOM_LIST)
         ELSE \E resolutions \in {RequestResolutions(request, SYMPTOM_LIST)} :
                IF Tokens(resolutions) = {}
                THEN resp' = EarlyResponse(request, resolutions, SYMPTOM_LIST)
                ELSE \E probabilities \in Distributions(Len(LABEL_ENCODER.classes_)) :
                     \E home_remedies \in generate_home_remedies(Tokens(resolutions), "") :
                        resp' = PredictResponse(request, resolutions,
                                                probabilities, home_remedies)
    /\ UNCHANGED <<pc, files, dataset, globals, written, normalized, services, startups, run>>

HandlePredict(requests) ==
    /\ pc = "serving"
    /\ resp = NoResp
    /\ \E request \in requests :
         IF request.kind \notin {"str", "list"}
         THEN resp' = EarlyResponse(request, {}, SYMPTOM_LIST)
         ELSE \E resolutions \in {RequestResolutions(request, SYMPTOM_LIST)} :
                IF Tokens(resolutions) = {}
                THEN resp' = EarlyResponse(request, resolutions, SYMPTOM_LIST)
                ELSE \E probabilities \in Distributions(Len(LABEL_ENCODER.classes_)) :
                     \E home_remedies \in generate_home_remedies(Tokens(resolutions), "") :
                        resp' = PredictResponse(request, resolutions,
                                                probabilities, home_remedies)
    /\ UNCHANGED <<pc, files, dataset, globals, written, normalized, services, startups, run>>

\* A request out of the whole request space is handled.
Predict == HandlePredict(Requests)

\* A request of the startup scenarios is handled.
PredictProbe == HandlePredict(ProbeRequests)

\* The response goes out.
Respond ==
    /\ resp # NoResp
    /\ resp' = NoResp
    /\ UNCHANGED <<pc, files, dataset, globals, written, normalized, services, startups, run>>

\* The process ends (the script ran off its end, or the server was stopped)
\* and app.py is run again: a new process, with the module-level values.
Restart ==
    /\ resp = NoResp
    /\ run.n < MaxRuns
    /\ pc' = "start"
    /\ dataset' = <<>>
    /\ MODEL' = None
    /\ SYMPTOM_LIST' = <<>>
    /\ LABEL_ENCODER' = None
    /\ DESC_DF' = None
    /\ PRECAUTION_DF' = None
    /\ SEVERITY_DF' = None
    /\ run' = FreshRun(run.n + 1, run.edits)
    /\ UNCHANGED <<files, resp, written, normalized, services, startups>>

\* Somebody replaces the CSV files.
EditDataset ==
    /\ resp = NoResp
    /\ run.edits < MaxEdits
    /\ \E c \in Contents \ {files} : files' = c
    /\ run' = [run EXCEPT !.edits = @ + 1]
    /\ UNCHANGED <<pc, dataset, globals, resp, written, normalized, services, startups>>

Next ==
    \/ LoadData
    \/ TrainModel
    \/ PredictProbe
    \/ Respond
    \/ Restart
    \/ EditDataset

\* The life of the service: startups, requests, restarts and file edits.
Spec == Init /\ [][Next]_vars

\* The state app.run is reached in when the files hold content c.
ServingOn(c) ==
    LET table == LoadMain(SourceTables[c].main)
    IN  /\ pc = "serving"
        /\ files = c
        /\ dataset = table
        /\ MODEL = FittedModel(table)
        /\ SYMPTOM_LIST = all_symptoms(table)
        /\ LABEL_ENCODER = [classes_ |-> LabelClasses(table)]
        /\ DESC_DF = LoadDesc(SourceTables[c].desc)
        /\ PRECAUTION_DF = LoadPrecaution(SourceTables[c].precaution)
        /\ SEVERITY_DF = LoadSeverity(SourceTables[c].severity)
        /\ resp = NoResp
        /\ written = {}
        /\ startups = <<[run |-> 1, content |-> c, trainings |-> 1,
                         vocabulary |-> all_symptoms(table),
                         classes |-> LabelClasses(table),
                         model |-> FittedModel(table)]>>
        /\ run = [FreshRun(1, 0) EXCEPT !.loads = 1, !.trainings = 1, !.content = c]
        /\ normalized = NoCall
        /\ ServicesIdle

InitServing ==
    \E c \in Contents :
        /\ ~LoadRaises(c)
        /\ ~TrainRaises(LoadMain(SourceTables[c].main))
        /\ ServingOn(c)

NextServing ==
    \/ Predict
    \/ Respond

\* The service after a successful startup, answering requests out of the
\* whole request space.
SpecPredict == InitServing /\ [][NextServing]_vars

\* The first startup of Spec ends in the states SpecPredict starts from.
ServingAsStarted ==
    (pc = "serving" /\ run.n = 1 /\ run.edits = 0 /\ resp = NoResp) => ServingOn(files)

(***************************************************************************)
(* clean_symptom on its own                                                *)
(***************************************************************************)

\* The characters the normalized strings are made of: a letter of each
\* case, the space, a whitespace character that is not the space, and the
\* underscore.
CleanAlphabet == {"A", "b", " ", "\t", "_"}

\* The longest string normalized.
MaxCleanLen == 3

RECURSIVE StringsUpTo(_, _)
StringsUpTo(alphabet, n) ==
    IF n = 0 THEN {""}
    ELSE LET shorter == StringsUpTo(alphabet, n - 1)
         IN  shorter \cup {str \o c : str \in shorter, c \in alphabet}

CleanInputs == StringsUpTo(CleanAlphabet, MaxCleanLen)

\* The calls made on one string: clean_symptom of it, and clean_symptom of
\* the result.
MaxCleanCalls == 2

InitClean ==
    /\ pc = "start"
    /\ files = 1
    /\ dataset = <<>>
    /\ InitGlobals
    /\ resp = NoResp
    /\ written = {}
    /\ startups = <<>>
    /\ run = FreshRun(1, 0)
    /\ \E str \in CleanInputs : normalized = [input |-> str, calls |-> <<>>]
    /\ ServicesIdle

\* clean_symptom is called on the string, or on what the last call returned.
CleanSymptom ==
    /\ Len(normalized.calls) < MaxCleanCalls
    /\ normalized' =
          [normalized EXCEPT !.calls =
              Append(@, clean_symptom(IF @ = <<>> THEN normalized.input ELSE @[Len(@)]))]
    /\ UNCHANGED <<pc, files, dataset, globals, resp, written, startups, run, services>>

NextClean == CleanSymptom

SpecClean == InitClean /\ [][NextClean]_vars

(***************************************************************************)
(* Properties of the resolver and of predict (SpecPredict)                 *)
(***************************************************************************)

Answered == resp # NoResp

Stages(resolutions) == {r.stage : r \in resolutions}

Ones(features) == {i \in DOMAIN features : features[i] = 1}

\* C1: closure.  Whatever the request and whichever stage accepted a text,
\* every token the resolver returned, every entry of matched_symptoms and
\* every token marked in the feature vector is a member of SYMPTOM_LIST.
C1_Closure ==
    Answered =>
        /\ Tokens(resp.resolved) \subseteq Range(SYMPTOM_LIST)
        /\ resp.matched_symptoms \subseteq Range(SYMPTOM_LIST)
        /\ resp.status = 200 =>
              /\ resp.matched_symptoms = Tokens(resp.resolved)
              /\ Len(resp.features) = Len(SYMPTOM_LIST)
              /\ Cardinality(Ones(resp.features)) = Cardinality(resp.matched_symptoms)

\* A prediction whose symptoms were accepted by all four stages.
C1_Witness ==
    /\ resp.status = 200
    /\ Stages(resp.resolved) = {"exact", "synonym", "fuzzy", "partial"}

\* C2: resolver exactness.  A request whose symptoms are one vocabulary
\* token resolves to exactly that token, by the exact stage alone.
C2_Exactness ==
    \A t \in Range(SYMPTOM_LIST) :
        (Answered /\ resp.received_input \in
            {[kind |-> "str", text |-> t], [kind |-> "list", items |-> <<t>>]})
        => /\ resp.status = 200
           /\ resp.matched_symptoms = {t}
           /\ Stages(resp.resolved) = {"exact"}

\* C3: confidence bounds.  The confidence a prediction reports lies in
\* [0.25, 0.95], and so does the confidence_score the HEAD side of predict
\* computes for it.
C3_ConfidenceBounds ==
    resp.status = 200 =>
        /\ 25 <= resp.confidence /\ resp.confidence <= 95
        /\ 25 <= confidence_score(resp.probability)
        /\ confidence_score(resp.probability) <= 95

\* C4: when no text of the request resolves to a vocabulary token, predict
\* answers 400 with the no-symptoms error and the first vocabulary tokens
\* as a hint, and neither builds a feature vector nor calls the classifier.
C4_NoSymptomsMatched ==
    (Answered /\ resp.received_input.kind \in {"str", "list"}
              /\ Tokens(resp.resolved) = {})
    => /\ resp.status = 400
       /\ resp.error = "No valid symptoms could be mapped from your input"
       /\ resp.suggestions = FirstN(SYMPTOM_LIST, SuggestionCount)
       /\ resp.features = <<>>
       /\ ~resp.queried

\* The request ["xyz123"] answered 400.
C4_Witness ==
    /\ Answered
    /\ resp.received_input = [kind |-> "list", items |-> <<"xyz123">>]
    /\ resp.status = 400
    /\ Len(resp.suggestions) > 0

TierRank(tier) ==
    CASE tier = "low" -> 1 [] tier = "medium" -> 2 [] tier = "high" -> 3
      [] tier = "critical" -> 4

\* The vocabulary tokens outside S that weigh more than every symptom of S.
Heavier(weight(_, _), S) ==
    LET w == [t \in Range(SYMPTOM_LIST) |-> weight(SEVERITY_DF, t)]
    IN  {x \in Range(SYMPTOM_LIST) \ S : \A s \in S : w[x] > w[s]}

\* C5: severity monotonicity.  For the matched symptoms S of a prediction
\* and a token x outside S that weighs strictly more than every symptom of
\* S, the tier of S with x is not below the tier of S; on the incoming side
\* of predict (average weight) and on the HEAD side (summed weight).
C5_SeverityMonotone ==
    resp.status = 200 =>
        LET S == resp.matched_symptoms
        IN  /\ resp.severity = SeverityInfo(SEVERITY_DF, S)
            /\ \A x \in Heavier(SeverityWeight, S) :
                  TierRank(SeverityInfo(SEVERITY_DF, S \cup {x})) >= TierRank(resp.severity)
            /\ \A x \in Heavier(SeverityWeightHEAD, S) :
                  TierRank(SeverityInfoHEAD(SEVERITY_DF, S \cup {x}))
                      >= TierRank(SeverityInfoHEAD(SEVERITY_DF, S))

\* A prediction of two symptoms to which a heavier token can be added, and
\* the tier rises with it.
C5_Witness ==
    /\ resp.status = 200
    /\ Cardinality(resp.matched_symptoms) = 2
    /\ \E x \in Heavier(SeverityWeight, resp.matched_symptoms) :
          TierRank(SeverityInfo(SEVERITY_DF, resp.matched_symptoms \cup {x}))
              > TierRank(resp.severity)

ScenarioB == [kind |-> "str", text |-> "I have a high temperature and can't breathe"]

\* C6 as stated: scenario B resolves to a set that includes fever and
\* shortness_of_breath when both are in the vocabulary.
C6_Original ==
    (Answered /\ resp.received_input = ScenarioB
              /\ {"fever", "shortness_of_breath"} \subseteq Range(SYMPTOM_LIST))
    => {"fever", "shortness_of_breath"} \subseteq resp.matched_symptoms

\* A text none of whose characters is a delimiter of the split.
OnePhrase(text) == \A i \in 1..Len(text) : Ch(text, i) \notin Delimiters

\* C6, amended: a string without clause punctuation is one phrase and
\* resolves to at most one token; scenario B is such a string, the synonym
\* stage accepts it for fever ("high temperature"), the partial stage is
\* not run on it, and its resolved set is {fever}: shortness_of_breath is
\* not in it although it is in the vocabulary.
C6_ScenarioB ==
    /\ (Answered /\ resp.received_input.kind = "str"
                  /\ OnePhrase(resp.received_input.text))
       => Cardinality(resp.matched_symptoms) <= 1
    /\ (Answered /\ resp.received_input = ScenarioB
                  /\ {"fever", "shortness_of_breath"} \subseteq Range(SYMPTOM_LIST))
       => /\ resp.matched_symptoms = {"fever"}
          /\ Stages(resp.resolved) = {"synonym"}

\* Scenario B answered with a prediction over a vocabulary holding both
\* tokens.
C6_Witness ==
    /\ resp.status = 200
    /\ resp.received_input = ScenarioB
    /\ {"fever", "shortness_of_breath"} \subseteq Range(SYMPTOM_LIST)

(***************************************************************************)
(* Properties of the startup (Spec)                                        *)
(***************************************************************************)

\* C7: cache idempotence.  Of two startups over identical files the second
\* is a cache hit, it does not execute train_model, and both yield the same
\* vocabulary and the same label mapping.
C7_CacheIdempotence ==
    \A i, j \in DOMAIN startups :
        (i < j /\ startups[i].content = startups[j].content)
        => /\ startups[j].trainings = 0
           /\ startups[j].vocabulary = startups[i].vocabulary
           /\ startups[j].classes = startups[i].classes

\* The cache entry a startup over content c would persist.
CacheEntry(c) == [hash |-> c]

LastStartup == startups[Len(startups)]

\* The files the serving startup read differ from those the startup before
\* it read.
ContentChanged ==
    Len(startups) > 1 /\ startups[Len(startups) - 1].content # LastStartup.content

\* The serving artifacts are those computed from the content c.
ArtifactsOf(c) ==
    LET table == LoadMain(SourceTables[c].main)
    IN  /\ MODEL = FittedModel(table)
        /\ SYMPTOM_LIST = all_symptoms(table)
        /\ LABEL_ENCODER = [classes_ |-> LabelClasses(table)]

\* C8: cache invalidation.  The serving model never comes from a cache
\* entry written for other content than the one the startup read, and a
\* startup over changed content retrains and persists the new hash.
C8_CacheInvalidation ==
    pc = "serving" =>
        /\ ArtifactsOf(run.content)
        /\ ContentChanged => /\ LastStartup.trainings = 1
                             /\ CacheEntry(run.content) \in written

\* C9: startup ordering.  In a process load_data and train_model each run at
\* most once, training after loading; both have run once when the process
\* serves; and a request is only ever handled by a serving process, with
\* MODEL, SYMPTOM_LIST and LABEL_ENCODER set, never during loading or
\* training.
C9_StartupOrder ==
    /\ run.loads <= 1
    /\ run.trainings <= run.loads
    /\ pc = "start" => run.loads = 0
    /\ pc = "loaded" => run.loads = 1 /\ run.trainings = 0
    /\ pc = "serving" => run.loads = 1 /\ run.trainings = 1
    /\ Answered => /\ pc = "serving"
                   /\ MODEL # None
                   /\ SYMPTOM_LIST # <<>>
                   /\ LABEL_ENCODER # None

\* A prediction answered by the second process run.
C9_Witness ==
    /\ resp.status = 200
    /\ run.n = 2
    /\ run.loads = 1
    /\ run.trainings = 1

AllSet ==
    /\ MODEL # None
    /\ SYMPTOM_LIST # <<>>
    /\ LABEL_ENCODER # None
    /\ DESC_DF # None
    /\ PRECAUTION_DF # None
    /\ SEVERITY_DF # None

\* C10: fail-fast startup.  A process in which load_data or train_model
\* raised has exited and answers nothing, and a process that serves or
\* answers has all six globals set.
C10_FailFast ==
    /\ run.failed => pc = "exited" /\ ~Answered
    /\ (pc = "serving" \/ Answered) => ~run.failed /\ AllSet

\* train_model raised after load_data had set its three tables: the process
\* has exited with the model unset.
C10_Witness ==
    /\ run.failed
    /\ pc = "exited"
    /\ DESC_DF # None
    /\ MODEL = None

(***************************************************************************)
(* Properties of the request path                                          *)
(***************************************************************************)

\* The six globals are what the startup of this process computed from the
\* files as it read them.
GlobalsAsStarted ==
    /\ ArtifactsOf(run.content)
    /\ DESC_DF = LoadDesc(SourceTables[run.content].desc)
    /\ PRECAUTION_DF = LoadPrecaution(SourceTables[run.content].precaution)
    /\ SEVERITY_DF = LoadSeverity(SourceTables[run.content].severity)

\* C11: frame of predict.  A step in which predict answers a request, with
\* a prediction (200), with an error of the request (400) or with the
\* internal error (500), changes none of MODEL, SYMPTOM_LIST, LABEL_ENCODER,
\* DESC_DF, PRECAUTION_DF, SEVERITY_DF; they are, after it as before it, what
\* the startup computed, and the answer is the one the request gets from
\* the startup's vocabulary, whatever was answered before.
C11_Frame ==
    [][(resp = NoResp /\ resp' # NoResp) =>
          /\ UNCHANGED <<globals, dataset, files, written, normalized, services, run>>
          /\ GlobalsAsStarted
          /\ \A answer \in {resp'} : \A vocab \in {SYMPTOM_LIST} :
                /\ answer.status \in {200, 400, 500}
                /\ answer.status # 200 =>
                      answer = EarlyResponse(answer.received_input, answer.resolved, vocab)
                /\ answer.received_input.kind \in {"str", "list"} =>
                      answer.resolved = RequestResolutions(answer.received_input, vocab)
                /\ answer.status = 200 =>
                      /\ answer.matched_symptoms = Tokens(answer.resolved)
                      /\ answer.features = Features(answer.matched_symptoms, vocab)]_vars

\* The second process run has answered a request with the internal error
\* and still holds the six globals of its startup.
C11_Witness ==
    /\ resp.status = 500
    /\ run.n = 2
    /\ AllSet
    /\ GlobalsAsStarted

SeverityTiers == {"low", "medium", "high", "critical"}

\* C12: the severity of every prediction is one of low, medium, high,
\* critical, whether the severity table is empty, lacks the matched symptoms
\* or holds them; on the incoming side of predict, whose value the response
\* carries, and on the HEAD side.
C12_SeverityTier ==
    resp.status = 200 =>
        /\ resp.severity \in SeverityTiers
        /\ SeverityInfoHEAD(SEVERITY_DF, resp.matched_symptoms) \in SeverityTiers

\* A prediction served with an empty severity table.
C12_Witness ==
    /\ resp.status = 200
    /\ SEVERITY_DF.rows = <<>>
    /\ resp.severity \in SeverityTiers

\* The home remedies the HEAD side of predict returns for the disease of
\* the response, from the precaution table as the HEAD side of load_data
\* leaves it.
RemediesHEAD ==
    HomeRemediesHEAD(
        PrecautionsOf(LoadPrecautionHEAD(SourceTables[files].precaution), resp.disease),
        resp.disease)

\* C13: the home-remedy list of every prediction has at most 6 entries and
\* is never empty; on the incoming side of predict (generate_home_remedies),
\* whose list the response carries, and on the HEAD side (lines 544-560).
C13_Remedies ==
    resp.status = 200 =>
        /\ resp.home_remedies # {}
        /\ Cardinality(resp.home_remedies) <= MaxRemedies
        /\ RemediesHEAD # <<>>
        /\ Len(RemediesHEAD) <= MaxRemedies

(***************************************************************************)
(* Properties of the resolver stages                                       *)
(***************************************************************************)

StageOrder == <<"exact", "synonym", "fuzzy", "partial">>

\* What a stage would add for a text, taken alone: a set with the token it
\* accepts the text for, or the empty set.
StagePick(stage, text, vocab) ==
    CASE stage = "exact" ->
           IF clean_symptom(text) \in Range(vocab) THEN {clean_symptom(text)} ELSE {}
      [] stage = "synonym" ->
           IF SynonymHits(text, vocab) # {}
           THEN {SYMPTOM_SYNONYMS[Min(SynonymHits(text, vocab))][1]} ELSE {}
      [] stage = "fuzzy" -> Range(get_close_matches(Replace(text, " ", "_"), vocab))
      [] stage = "partial" ->
           IF PartialHits(text, vocab) # {}
           THEN {vocab[Min(PartialHits(text, vocab))]} ELSE {}

\* The picks of the four stages for a text, in stage order.
StagePicks(text, vocab) == [n \in 1..Len(StageOrder) |-> StagePick(StageOrder[n], text, vocab)]

\* C14: stage order.  Every text of a request that is not blank is settled
\* by the first of exact, synonym, fuzzy, partial that accepts it, with the
\* token of that stage, whatever the later stages would have accepted; it
\* adds one token, or none when no stage accepts it, and this is no error:
\* the request is answered 200 or 400.
C14_StageOrder ==
    Answered =>
        \A r \in resp.resolved :
            LET text == Strip(r.text)
                picks == StagePicks(text, SYMPTOM_LIST)
                accepting == {n \in 1..Len(StageOrder) : picks[n] # {}}
            IN  /\ r.stage = "skip" <=> text = ""
                /\ resp.status \in {200, 400}
                /\ text # "" =>
                      IF accepting = {}
                      THEN r.stage = "none" /\ r.token = ""
                      ELSE /\ r.stage = StageOrder[Min(accepting)]
                           /\ picks[Min(accepting)] = {r.token}
                           /\ r.token \in resp.matched_symptoms \/ resp.status # 200

\* A prediction for a request of two texts: the synonym stage settled one
\* for which the partial stage would have picked another token, and no
\* stage accepted the other.
C14_Witness ==
    /\ resp.status = 200
    /\ \E r \in resp.resolved :
          /\ r.stage = "synonym"
          /\ StagePick("partial", Strip(r.text), SYMPTOM_LIST) \notin {{}, {r.token}}
    /\ \E r \in resp.resolved : r.stage = "none"

\* The word the fuzzy stage compares with the vocabulary for a text.
FuzzyWord(text) == Replace(Strip(text), " ", "_")

\* r1 <= r2 for similarities <<numerator, denominator>>.
RatioLeq(r1, r2) == r1[1] * r2[2] <= r2[1] * r1[2]

\* The vocabulary tokens of maximum similarity to the word.
MostSimilar(word, vocab) ==
    LET score == [t \in Range(vocab) |-> Ratio(t, word)]
    IN  {t \in Range(vocab) : \A u \in Range(vocab) : RatioLeq(score[u], score[t])}

\* The tokens whose similarity to the word is at least 0.7.
CloseEnough(word, vocab) == {t \in Range(vocab) : AtLeastCutoff(Ratio(t, word))}

\* C15 as stated: the token the fuzzy stage accepts has similarity at least
\* 0.7 and the maximum similarity of the vocabulary, and of the tokens tied
\* for the maximum it is the lexicographically first.
C15_Original ==
    Answered =>
        \A r \in {q \in resp.resolved : q.stage = "fuzzy"} :
            LET best == MostSimilar(FuzzyWord(r.text), SYMPTOM_LIST)
            IN  /\ r.token \in CloseEnough(FuzzyWord(r.text), SYMPTOM_LIST)
                /\ r.token \in best
                /\ \A t \in best \ {r.token} : StrLess(r.token, t)

\* C15, amended: the token the fuzzy stage accepts has similarity at least
\* 0.7 and the maximum similarity of the vocabulary, and of the tokens tied
\* for the maximum it is the lexicographically last; a text that got as far
\* as the partial stage has no token of similarity 0.7 or more.
C15_FuzzyChoice ==
    Answered =>
        \A r \in resp.resolved :
            LET word == FuzzyWord(r.text)
                best == MostSimilar(word, SYMPTOM_LIST)
            IN  /\ r.stage = "fuzzy" =>
                      /\ r.token \in CloseEnough(word, SYMPTOM_LIST)
                      /\ r.token \in best
                      /\ \A t \in best \ {r.token} : StrLess(t, r.token)
                /\ r.stage \in {"partial", "none"} => CloseEnough(word, SYMPTOM_LIST) = {}

\* A text the fuzzy stage settled with two vocabulary tokens tied for the
\* maximum similarity.
C15_Witness ==
    /\ Answered
    /\ \E r \in resp.resolved :
          /\ r.stage = "fuzzy"
          /\ Cardinality(MostSimilar(FuzzyWord(r.text), SYMPTOM_LIST)) > 1

\* The lengths of the words of a vocabulary token, longer than 3
\* characters, that occur in the text: the token qualifies as a partial
\* match when there is one, and the longest is its overlap with the text.
OverlapLengths(token, text) ==
    LET words == WordSplit(Replace(token, "_", " "))
    IN  {Len(words[k]) : k \in {j \in 1..Len(words) :
                                   Len(words[j]) > PartialMinWordLen /\ Contains(words[j], text)}}

Qualifying(text, vocab) == {t \in Range(vocab) : OverlapLengths(t, text) # {}}

Overlap(token, text) ==
    CHOOSE x \in OverlapLengths(token, text) : \A y \in OverlapLengths(token, text) : y <= x

\* C16 as stated: of the tokens that qualify as partial matches of a text,
\* the partial stage accepts the one of the longest overlap, the
\* lexicographically first of those of equal overlap.
C16_Original ==
    Answered =>
        \A r \in {q \in resp.resolved : q.stage = "partial"} :
            LET text == Strip(r.text)
            IN  /\ r.token \in Qualifying(text, SYMPTOM_LIST)
                /\ \A t \in Qualifying(text, SYMPTOM_LIST) \ {r.token} :
                      \/ Overlap(t, text) < Overlap(r.token, text)
                      \/ Overlap(t, text) = Overlap(r.token, text) /\ StrLess(r.token, t)

\* C16, amended: of the tokens that qualify as partial matches of a text,
\* the partial stage accepts the first in vocabulary order, which is the
\* lexicographically first, whatever the overlaps.
C16_FirstQualifying ==
    Answered =>
        \A r \in {q \in resp.resolved : q.stage = "partial"} :
            LET text == Strip(r.text)
            IN  /\ r.token \in Qualifying(text, SYMPTOM_LIST)
                /\ \A t \in Qualifying(text, SYMPTOM_LIST) \ {r.token} : StrLess(r.token, t)
                /\ \A n \in 1..Len(SYMPTOM_LIST) :
                      SYMPTOM_LIST[n] \in Qualifying(text, SYMPTOM_LIST)
                      => \E m \in 1..n : SYMPTOM_LIST[m] = r.token

\* A text the partial stage settled with the first qualifying token while
\* a later one has the longer overlap.
C16_Witness ==
    /\ Answered
    /\ \E r \in resp.resolved :
          /\ r.stage = "partial"
          /\ \E t \in Qualifying(Strip(r.text), SYMPTOM_LIST) :
                Overlap(t, Strip(r.text)) > Overlap(r.token, Strip(r.text))

(***************************************************************************)
(* Properties of the confidence, the features and the vocabulary           *)
(***************************************************************************)

\* The combinations all of whose symptoms are among the given ones.
CombinationsIn(symptoms) == {c \in Range(symptom_combinations) : c \subseteq symptoms}

\* C17 as stated: the confidence exceeds the classifier's maximum class
\* probability only when the resolved set equals one of the combinations;
\* the boost is then +0.2 once, capped at 1.0.
C17_Original ==
    resp.status = 200 =>
        /\ resp.confidence > resp.probability =>
              resp.matched_symptoms \in Range(symptom_combinations)
        /\ resp.confidence \in {resp.probability, resp.probability + Boost, One}
        /\ resp.confidence <= One

\* C17, amended: the confidence exceeds the classifier's maximum class
\* probability only when the resolved set contains all symptoms of one of
\* the combinations, other symptoms besides or not; it is then the
\* probability plus 0.2, once however many combinations the set contains,
\* capped at 1.0, and otherwise the probability itself.
C17_Boost ==
    resp.status = 200 =>
        /\ resp.confidence > resp.probability => CombinationsIn(resp.matched_symptoms) # {}
        /\ CombinationsIn(resp.matched_symptoms) # {} =>
              resp.confidence = IF resp.probability + Boost < One
                                THEN resp.probability + Boost ELSE One
        /\ CombinationsIn(resp.matched_symptoms) = {} => resp.confidence = resp.probability
        /\ resp.confidence <= One

\* A boosted prediction whose resolved set holds two combinations and is
\* neither of them.
C17_Witness ==
    /\ resp.status = 200
    /\ resp.confidence = resp.probability + Boost
    /\ Cardinality(CombinationsIn(resp.matched_symptoms)) = 2
    /\ resp.matched_symptoms \notin Range(symptom_combinations)

\* The sequence is strictly ascending in the order of str.
StrictlyAscending(seq) == \A i \in 1..(Len(seq) - 1) : StrLess(seq[i], seq[i + 1])

\* C18: the feature vector of a prediction is as long as the vocabulary,
\* which is sorted; it holds 1 at the positions of the vocabulary tokens in
\* the resolved set and 0 at the others, so it has as many ones as the
\* resolved set has tokens, and at least one.
C18_FeatureVector ==
    resp.status = 200 =>
        /\ Len(resp.features) = Len(SYMPTOM_LIST)
        /\ StrictlyAscending(SYMPTOM_LIST)
        /\ \A i \in 1..Len(SYMPTOM_LIST) :
              /\ resp.features[i] \in {0, 1}
              /\ resp.features[i] = 1 <=> SYMPTOM_LIST[i] \in Tokens(resp.resolved)
        /\ Cardinality(Ones(resp.features)) = Cardinality(Tokens(resp.resolved))
        /\ Cardinality(Ones(resp.features)) >= 1

\* A prediction from two resolved symptoms, with vocabulary tokens before,
\* between and after them that were not resolved.
C18_Witness ==
    /\ resp.status = 200
    /\ Cardinality(Ones(resp.features)) = 2
    /\ resp.features[1] = 0
    /\ resp.features[Len(SYMPTOM_LIST)] = 0
    /\ \E i, j, k \in 1..Len(SYMPTOM_LIST) :
          /\ i < j /\ j < k
          /\ resp.features[i] = 1 /\ resp.features[j] = 0 /\ resp.features[k] = 1

\* The cells of the main table of content c that hold a value: the cells
\* read_csv does not read as NaN.
ValueCells(c) ==
    UNION {{SourceTables[c].main[i].cells[k] : k \in 1..Len(SourceTables[c].main[i].cells)} :
              i \in 1..Len(SourceTables[c].main)} \ NaValues

\* C19: the vocabulary a startup trains with is the set of the normalized
\* symptom cells of all rows of the main table, without the empty token
\* that a blank cell normalizes to and without the NaN cells; it is
\* strictly ascending, so sorted and free of duplicates.
C19_Vocabulary ==
    pc = "serving" =>
        /\ Range(SYMPTOM_LIST) = {clean_symptom(cell) : cell \in ValueCells(run.content)} \ {""}
        /\ "" \notin Range(SYMPTOM_LIST)
        /\ StrictlyAscending(SYMPTOM_LIST)
        /\ Len(SYMPTOM_LIST) = Cardinality(Range(SYMPTOM_LIST))
        /\ MODEL.n_features_in_ = Len(SYMPTOM_LIST)

\* A startup serves with the vocabulary of a table that has blank cells,
\* NaN cells and cells in need of normalization.
C19_Witness ==
    /\ pc = "serving"
    /\ \E cell \in ValueCells(run.content) : clean_symptom(cell) = ""
    /\ \E i \in 1..Len(SourceTables[run.content].main) :
          \E k \in 1..Len(SourceTables[run.content].main[i].cells) :
              SourceTables[run.content].main[i].cells[k] \in NaValues
    /\ \E cell \in ValueCells(run.content) :
          clean_symptom(cell) # cell /\ clean_symptom(cell) \in Range(SYMPTOM_LIST)

(***************************************************************************)
(* Properties of clean_symptom (SpecClean)                                 *)
(***************************************************************************)

HasUpperCase(str) == \E i \in 1..Len(str) : Contains(Ch(str, i), UpperCase)

HasWhiteSpace(str) == \E i \in 1..Len(str) : Ch(str, i) \in WhiteSpace

\* C20: normal form.  What clean_symptom returns holds no upper-case letter
\* and no whitespace character, at either end or inside, and clean_symptom
\* of it returns it unchanged.
C20_NormalForm ==
    /\ \A k \in 1..Len(normalized.calls) :
          /\ ~HasUpperCase(normalized.calls[k])
          /\ ~HasWhiteSpace(normalized.calls[k])
    /\ Len(normalized.calls) = 2 => normalized.calls[2] = normalized.calls[1]

(***************************************************************************)
(* Properties of the severity default and of the grouping of the input     *)
(***************************************************************************)

\* The symptom has a row in the severity table.
HasSeverityEntry(severity_df, symptom) ==
    \E n \in 1..Len(severity_df.rows) :
        Lower(Strip(severity_df.rows[n].Symptom)) = Replace(Lower(Strip(symptom)), " ", "_")

\* The tier predict assigns when it has nothing to score.
DefaultTier == "medium"

\* C21: severity default.  A resolved symptom without a row in the severity
\* table weighs 0, and a prediction none of whose resolved symptoms has a
\* row in the table, the table being empty or not, is given the default
\* tier, the same in both cases.
C21_SeverityDefault ==
    resp.status = 200 =>
        /\ \A sym \in resp.matched_symptoms :
              ~HasSeverityEntry(SEVERITY_DF, sym) => SeverityWeight(SEVERITY_DF, sym) = 0
        /\ (\A sym \in resp.matched_symptoms : ~HasSeverityEntry(SEVERITY_DF, sym))
              => resp.severity = DefaultTier

Reverse(seq) == [i \in 1..Len(seq) |-> seq[Len(seq) + 1 - i]]

AsList(items) == [kind |-> "list", items |-> items]

AsText(text) == [kind |-> "str", text |-> text]

\* C22: order and grouping independence.  The set a list request resolves
\* to is that of the list reversed, that of the list with its elements
\* repeated, the union of the sets its elements resolve to one by one, and
\* the set resolved from the one string that joins its elements with commas.
C22_Grouping ==
    (Answered /\ resp.received_input.kind = "list") =>
        LET items == resp.received_input.items
            resolved == Tokens(resp.resolved)
        IN  /\ resolved = MappedSymptoms(AsList(Reverse(items)), SYMPTOM_LIST)
            /\ resolved = MappedSymptoms(AsList(items \o items), SYMPTOM_LIST)
            /\ resolved = UNION {MappedSymptoms(AsList(<<items[i]>>), SYMPTOM_LIST) :
                                   i \in 1..Len(items)}
            /\ resolved = MappedSymptoms(AsText(Join(items, ",")), SYMPTOM_LIST)
            /\ resp.status = 200 => resp.matched_symptoms = resolved

\* A prediction for a list of one element that holds three delimited
\* phrases, each resolved to a token of its own.
C22_Witness ==
    /\ resp.status = 200
    /\ resp.received_input.kind = "list"
    /\ Len(resp.received_input.items) = 1
    /\ Cardinality(resp.resolved) = 3
    /\ Cardinality(resp.matched_symptoms) = 3


(***************************************************************************)
(* telemedicine_platform.py: the TelemedicinePlatform instance             *)
(***************************************************************************)

\* The state of the application while a specification of a service runs:
\* the service modules do not touch it.
application == <<pc, files, dataset, globals, resp, written, normalized, startups, run>>

ApplicationIdle ==
    /\ pc = "start"
    /\ files = 1
    /\ dataset = <<>>
    /\ InitGlobals
    /\ resp = NoResp
    /\ written = {}
    /\ startups = <<>>
    /\ run = FreshRun(1, 0)
    /\ normalized = NoCall

\* Two of the six mock doctors.
Doctors == {"dr001", "dr002"}

\* Times are minutes since the platform was constructed.  Two of a
\* doctor's slots: the one half an hour after the construction and the
\* one an hour after it.
SlotTimes == {30, 60}

\* The readings of datetime.now() the calls see; successive readings never
\* decrease.
ClockReadings == {0, 20}

\* A doctor's slots: each generated slot is available or not, at random.
generate_available_slots == [SlotTimes -> BOOLEAN]

\* consultation_fees: each fee is drawn from its range.
FeeRanges == [video |-> 50..150, audio |-> 30..100, chat |-> 20..80]

\* The draws of the construction the runs start from: every slot available
\* and the lowest fees, and dr001's first slot taken and the highest fees.
Draws ==
    {[slots |-> [d \in Doctors |-> [s \in SlotTimes |-> TRUE]],
      fees |-> [video |-> 50, audio |-> 30, chat |-> 20]],
     [slots |-> [d \in Doctors |-> [s \in SlotTimes |-> ~(d = "dr001" /\ s = 30)]],
      fees |-> [video |-> 150, audio |-> 100, chat |-> 80]]}

\* The values doctors_availability has after construction.
initialize_mock_doctors ==
    {[d \in Doctors |->
        [available_slots |-> draw.slots[d], consultation_fees |-> draw.fees]] :
        draw \in {w \in Draws :
                    /\ \A d \in Doctors : w.slots[d] \in generate_available_slots
                    /\ \A type \in DOMAIN FeeRanges : w.fees[type] \in FeeRanges[type]}}

\* The instance, and the return value of the last call, as one record.
Platform ==
    [doctors_availability |-> doctors_availability,
     appointments |-> appointments,
     consultations |-> consultations,
     waiting_rooms |-> waiting_rooms,
     result |-> result]

Failure(op, error) == [op |-> op, success |-> FALSE, error |-> error]

Success(op, appointment_id) == [op |-> op, success |-> TRUE, error |-> ""]

\* uuid4: an identifier no earlier appointment has.  Appointments are kept
\* in the order they were stored and identified by their position.
NewAppointmentId(p) == Len(p.appointments) + 1

\* book_appointment storing a second appointment on a slot already taken.
book_appointment_unchecked(p, user_id, doctor_id, slot_datetime, consultation_type, t) ==
    LET op == "book_appointment"
    IN  IF doctor_id \notin DOMAIN p.doctors_availability
        THEN [p EXCEPT !.result = Failure(op, "Doctor not found")]
        ELSE LET doctor_data == p.doctors_availability[doctor_id]
                 slots == doctor_data.available_slots
             IN  IF slot_datetime \notin DOMAIN slots
                 THEN [p EXCEPT !.result = Failure(op, "Time slot not available")]
                 ELSE IF consultation_type \notin DOMAIN doctor_data.consultation_fees
                 THEN [p EXCEPT !.result = Failure(op, repr(consultation_type))]
                 ELSE [p EXCEPT
                         !.doctors_availability[doctor_id].available_slots[slot_datetime] = FALSE,
                         !.appointments = Append(@,
                             [appointment_id |-> NewAppointmentId(p),
                              user_id |-> user_id,
                              doctor_id |-> doctor_id,
                              scheduled_time |-> slot_datetime,
                              consultation_type |-> consultation_type,
                              consultation_fee |-> doctor_data.consultation_fees[consultation_type],
                              status |-> "scheduled"]),
                         !.result = Success(op, NewAppointmentId(p))]

\* book_appointment: the first slot with the datetime that is available is
\* marked booked as soon as it is found; the appointment is built after
\* that, and looking up the fee of a consultation type the doctor has none
\* for raises KeyError, which the handler turns into a failure.
book_appointment(p, user_id, doctor_id, slot_datetime, consultation_type, t) ==
    LET op == "book_appointment"
    IN  IF doctor_id \notin DOMAIN p.doctors_availability
        THEN [p EXCEPT !.result = Failure(op, "Doctor not found")]
        ELSE LET doctor_data == p.doctors_availability[doctor_id]
                 slots == doctor_data.available_slots
                 booked == [p EXCEPT
                     !.doctors_availability[doctor_id].available_slots[slot_datetime] = FALSE]
             IN  IF ~(slot_datetime \in DOMAIN slots /\ slots[slot_datetime])
                 THEN [p EXCEPT !.result = Failure(op, "Time slot not available")]
                 ELSE IF consultation_type \notin DOMAIN doctor_data.consultation_fees
                 THEN [booked EXCEPT !.result = Failure(op, repr(consultation_type))]
                 ELSE [booked EXCEPT
                         !.appointments = Append(@,
                             [appointment_id |-> NewAppointmentId(p),
                              user_id |-> user_id,
                              doctor_id |-> doctor_id,
                              scheduled_time |-> slot_datetime,
                              consultation_type |-> consultation_type,
                              consultation_fee |-> doctor_data.consultation_fees[consultation_type],
                              status |-> "scheduled"]),
                         !.result = Success(op, NewAppointmentId(p))]

\* The waiting room opens this many minutes before the appointment and
\* closes this many minutes after it.
WaitingRoomOpens == 15
WaitingRoomCloses == 30

\* join_waiting_room: the appointment itself is only read.
join_waiting_room(p, appointment_id, user_id, t) ==
    LET op == "join_waiting_room"
    IN  IF appointment_id \notin DOMAIN p.appointments
        THEN [p EXCEPT !.result = Failure(op, "Appointment not found")]
        ELSE LET appointment == p.appointments[appointment_id]
                 time_diff == appointment.scheduled_time - t
             IN  IF appointment.user_id # user_id
                 THEN [p EXCEPT !.result = Failure(op, "Unauthorized access")]
                 ELSE IF time_diff > WaitingRoomOpens
                 THEN [p EXCEPT !.result =
                         Failure(op, "Waiting room opens 15 minutes before appointment")]
                 ELSE IF time_diff < 0 - WaitingRoomCloses
                 THEN [p EXCEPT !.result = Failure(op, "Appointment time has passed")]
                 ELSE [p EXCEPT
                         !.waiting_rooms =
                             (appointment_id :>
                                 [appointment_id |-> appointment_id,
                                  user_id |-> user_id,
                                  joined_at |-> t,
                                  status |-> "waiting",
                                  estimated_wait_time |-> Max(0, time_diff)]) @@ @,
                         !.result = Success(op, appointment_id)]

\* The consultation "cons_<appointment_id>" is identified by the
\* appointment's identifier.
NewConsultation(appointment, doctor_id, t) ==
    [consultation_id |-> appointment.appointment_id,
     appointment_id |-> appointment.appointment_id,
     started_at |-> t,
     ended_at |-> <<>>,
     status |-> "active",
     participants |-> <<appointment.user_id, doctor_id>>]

\* start_consultation leaving the appointment's status alone.
start_consultation_silent(p, appointment_id, doctor_id, t) ==
    LET op == "start_consultation"
    IN  IF appointment_id \notin DOMAIN p.appointments
        THEN [p EXCEPT !.result = Failure(op, "Appointment not found")]
        ELSE LET appointment == p.appointments[appointment_id]
             IN  IF appointment.doctor_id # doctor_id
                 THEN [p EXCEPT !.result = Failure(op, "Unauthorized doctor access")]
                 ELSE [p EXCEPT
                         !.consultations =
                             (appointment_id :> NewConsultation(appointment, doctor_id, t)) @@ @,
                         !.result = Success(op, appointment_id)]

\* start_consultation: the appointment's doctor starts it whatever its
\* status is; a consultation already stored for it is replaced.
start_consultation(p, appointment_id, doctor_id, t) ==
    LET op == "start_consultation"
    IN  IF appointment_id \notin DOMAIN p.appointments
        THEN [p EXCEPT !.result = Failure(op, "Appointment not found")]
        ELSE LET appointment == p.appointments[appointment_id]
             IN  IF appointment.doctor_id # doctor_id
                 THEN [p EXCEPT !.result = Failure(op, "Unauthorized doctor access")]
                 ELSE [p EXCEPT
                         !.appointments[appointment_id].status = "in_progress",
                         !.consultations =
                             (appointment_id :> NewConsultation(appointment, doctor_id, t)) @@ @,
                         !.result = Success(op, appointment_id)]

\* end_consultation: the consultation and its appointment are completed.
end_consultation(p, consultation_id, doctor_id, t) ==
    LET op == "end_consultation"
    IN  IF consultation_id \notin DOMAIN p.consultations
        THEN [p EXCEPT !.result = Failure(op, "Consultation not found")]
        ELSE LET consultation == p.consultations[consultation_id]
                 appointment_id == consultation.appointment_id
                 appointment == p.appointments[appointment_id]
             IN  IF appointment.doctor_id # doctor_id
                 THEN [p EXCEPT !.result = Failure(op, "Unauthorized doctor access")]
                 ELSE [p EXCEPT
                         !.consultations[consultation_id].ended_at = <<t>>,
                         !.consultations[consultation_id].status = "completed",
                         !.appointments[appointment_id].status = "completed",
                         !.result = Success(op, appointment_id)]

\* reschedule_appointment marking the new slot without releasing the old one.
reschedule_appointment_keeping(p, appointment_id, user_id, new_slot_datetime, t) ==
    LET op == "reschedule_appointment"
    IN  IF appointment_id \notin DOMAIN p.appointments
        THEN [p EXCEPT !.result = Failure(op, "Appointment not found")]
        ELSE LET appointment == p.appointments[appointment_id]
                 doctor_id == appointment.doctor_id
                 slots == p.doctors_availability[doctor_id].available_slots
             IN  IF appointment.user_id # user_id
                 THEN [p EXCEPT !.result = Failure(op, "Unauthorized access")]
                 ELSE IF appointment.status # "scheduled"
                 THEN [p EXCEPT !.result =
                         Failure(op, "Cannot reschedule completed or cancelled appointment")]
                 ELSE IF ~(new_slot_datetime \in DOMAIN slots /\ slots[new_slot_datetime])
                 THEN [p EXCEPT !.result = Failure(op, "New time slot not available")]
                 ELSE [p EXCEPT
                         !.doctors_availability[doctor_id].available_slots =
                             [@ EXCEPT ![new_slot_datetime] = FALSE],
                         !.appointments[appointment_id].scheduled_time = new_slot_datetime,
                         !.result = Success(op, appointment_id)]

\* reschedule_appointment: when the new slot is available the old slot is
\* released, the new one marked, and the appointment moved.
reschedule_appointment(p, appointment_id, user_id, new_slot_datetime, t) ==
    LET op == "reschedule_appointment"
    IN  IF appointment_id \notin DOMAIN p.appointments
        THEN [p EXCEPT !.result = Failure(op, "Appointment not found")]
        ELSE LET appointment == p.appointments[appointment_id]
                 doctor_id == appointment.doctor_id
                 slots == p.doctors_availability[doctor_id].available_slots
             IN  IF appointment.user_id # user_id
                 THEN [p EXCEPT !.result = Failure(op, "Unauthorized access")]
                 ELSE IF appointment.status # "scheduled"
                 THEN [p EXCEPT !.result =
                         Failure(op, "Cannot reschedule completed or cancelled appointment")]
                 ELSE IF ~(new_slot_datetime \in DOMAIN slots /\ slots[new_slot_datetime])
                 THEN [p EXCEPT !.result = Failure(op, "New time slot not available")]
                 ELSE [p EXCEPT
                         !.doctors_availability[doctor_id].available_slots =
                             [[@ EXCEPT ![appointment.scheduled_time] = TRUE]
                                 EXCEPT ![new_slot_datetime] = FALSE],
                         !.appointments[appointment_id].scheduled_time = new_slot_datetime,
                         !.result = Success(op, appointment_id)]

\* The refund: all of the fee a day or more before the appointment, half
\* of it two hours or more before.
FullRefundHours == 24
HalfRefundHours == 2
MinutesPerHour == 60

refund_percentage(appointment, t) ==
    LET minutes_until_appointment == appointment.scheduled_time - t
    IN  IF minutes_until_appointment >= FullRefundHours * MinutesPerHour THEN 100
        ELSE IF minutes_until_appointment >= HalfRefundHours * MinutesPerHour THEN 50
        ELSE 0

\* cancel_appointment: the owner cancels a scheduled appointment; its slot
\* is released.
cancel_appointment(p, appointment_id, user_id, t) ==
    LET op == "cancel_appointment"
    IN  IF appointment_id \notin DOMAIN p.appointments
        THEN [p EXCEPT !.result = Failure(op, "Appointment not found")]
        ELSE LET appointment == p.appointments[appointment_id]
             IN  IF appointment.user_id # user_id
                 THEN [p EXCEPT !.result = Failure(op, "Unauthorized access")]
                 ELSE IF appointment.status # "scheduled"
                 THEN [p EXCEPT !.result =
                         Failure(op, "Cannot cancel completed or already cancelled appointment")]
                 ELSE [p EXCEPT
                         !.doctors_availability[appointment.doctor_id]
                             .available_slots[appointment.scheduled_time] = TRUE,
                         !.appointments[appointment_id].status = "cancelled",
                         !.result = Success(op, appointment_id) @@
                             [refund_percentage |-> refund_percentage(appointment, t)]]

\* The callers and what they pass.
Users == {"user1", "user2"}
Patients == {"user1"}
DoctorInputs == Doctors \cup {"dr999"}
SlotInputs == SlotTimes
TypeInputs == {"video", "in_person"}

\* The identifiers uuid4 gives the appointments of one run, in the order it
\* gives them, and one it never gives.
AppointmentIds == {1, 2}
AppointmentInputs == AppointmentIds \cup {3}

\* The call has returned: the instance is as the operation left it.
Returned(p) ==
    /\ doctors_availability' = p.doctors_availability
    /\ appointments' = p.appointments
    /\ consultations' = p.consultations
    /\ waiting_rooms' = p.waiting_rooms
    /\ result' = p.result
    /\ UNCHANGED <<now, application, mental_health, medication, vital_signs>>

BookAppointment ==
    /\ NewAppointmentId(Platform) \in AppointmentIds
    /\ \E user_id \in Patients, doctor_id \in DoctorInputs, slot_datetime \in SlotInputs,
          consultation_type \in TypeInputs :
            Returned(book_appointment(Platform, user_id, doctor_id, slot_datetime,
                                      consultation_type, now))

JoinWaitingRoom ==
    \E appointment_id \in AppointmentInputs, user_id \in Users :
        Returned(join_waiting_room(Platform, appointment_id, user_id, now))

StartConsultation ==
    \E appointment_id \in AppointmentInputs, doctor_id \in DoctorInputs :
        Returned(start_consultation(Platform, appointment_id, doctor_id, now))

EndConsultation ==
    \E consultation_id \in AppointmentInputs, doctor_id \in DoctorInputs :
        Returned(end_consultation(Platform, consultation_id, doctor_id, now))

RescheduleAppointment ==
    \E appointment_id \in AppointmentInputs, user_id \in Users,
       new_slot_datetime \in SlotInputs :
        Returned(reschedule_appointment(Platform, appointment_id, user_id,
                                        new_slot_datetime, now))

CancelAppointment ==
    \E appointment_id \in AppointmentInputs, user_id \in Users :
        Returned(cancel_appointment(Platform, appointment_id, user_id, now))

\* Time passes between two calls: the clock gives a later reading.
Tick ==
    /\ \E t \in ClockReadings : t > now /\ now' = t
    /\ UNCHANGED <<doctors_availability, appointments, consultations, waiting_rooms,
                   result, application, mental_health, medication, vital_signs>>

\* The platform as constructed, and the other services untouched.
InitTelemedicine ==
    /\ ApplicationIdle
    /\ doctors_availability \in initialize_mock_doctors
    /\ appointments = <<>>
    /\ consultations = <<>>
    /\ waiting_rooms = <<>>
    /\ now = 0
    /\ result = NoResult
    /\ MentalHealthIdle
    /\ MedicationIdle
    /\ VitalSignsIdle

NextTelemedicine ==
    \/ BookAppointment
    \/ JoinWaitingRoom
    \/ StartConsultation
    \/ EndConsultation
    \/ RescheduleAppointment
    \/ CancelAppointment
    \/ Tick

SpecTelemedicine == InitTelemedicine /\ [][NextTelemedicine]_vars


(***************************************************************************)
(* Claims about the telemedicine platform                                  *)
(***************************************************************************)

Scheduled == {i \in DOMAIN appointments : appointments[i].status = "scheduled"}

SlotAvailable(availability, appointment) ==
    availability[appointment.doctor_id].available_slots[appointment.scheduled_time]

SameSlot(a, b) == a.doctor_id = b.doctor_id /\ a.scheduled_time = b.scheduled_time

\* C23: no two scheduled appointments have the same doctor and the same
\* scheduled_time, and the slot of every scheduled appointment is marked
\* unavailable, whatever calls were made.
C23_NoDoubleBooking ==
    /\ \A i \in Scheduled : \A j \in Scheduled :
          i # j => ~SameSlot(appointments[i], appointments[j])
    /\ \A i \in Scheduled : ~SlotAvailable(doctors_availability, appointments[i])

\* A slot that was booked, released by a cancellation and booked again: two
\* appointments name it, and one of them is scheduled.
C23_Witness ==
    \E i \in DOMAIN appointments : \E j \in Scheduled :
        /\ appointments[i].status = "cancelled"
        /\ SameSlot(appointments[i], appointments[j])
        /\ ~SlotAvailable(doctors_availability, appointments[j])

\* C24: a book_appointment call that returns success=False leaves the
\* slots' availability and the appointments as they were before the call.
C24_FailedBooking ==
    [][(result'.op = "book_appointment" /\ ~result'.success)
          => UNCHANGED <<doctors_availability, appointments>>]_vars

Terminal == {"cancelled", "completed"}

\* C25: an appointment that is cancelled or completed keeps its status in
\* every step, and an appointment becomes in_progress only from scheduled.
C25_TerminalStatus ==
    [][\A i \in DOMAIN appointments :
          /\ appointments[i].status \in Terminal
                => appointments'[i].status = appointments[i].status
          /\ (appointments'[i].status = "in_progress"
                /\ appointments[i].status # "in_progress")
                => appointments[i].status = "scheduled"]_vars

Unavailable(availability, doctor_id) ==
    {s \in DOMAIN availability[doctor_id].available_slots :
        ~availability[doctor_id].available_slots[s]}

\* What a successful reschedule of appointment i to the slot at time new
\* makes of the appointments and of the slots.
Swapped(i, new, appointments_after, availability_after) ==
    LET appointment == appointments[i]
        doctor_id == appointment.doctor_id
        old == appointment.scheduled_time
    IN  /\ appointment.status = "scheduled"
        /\ appointments_after = [appointments EXCEPT ![i].scheduled_time = new]
        /\ availability_after =
              [doctors_availability EXCEPT
                  ![doctor_id].available_slots =
                      [s \in DOMAIN @ |-> IF s = new THEN FALSE
                                          ELSE IF s = old THEN TRUE ELSE @[s]]]
        /\ new # old
        /\ Cardinality(Unavailable(availability_after, doctor_id))
              = Cardinality(Unavailable(doctors_availability, doctor_id))

\* C26: a reschedule_appointment call that succeeds releases the old slot,
\* marks the new one and moves the appointment to it, the doctor's number
\* of unavailable slots staying the same; one that fails changes neither a
\* slot nor an appointment.
C26_RescheduleSwap ==
    [][(result'.op = "reschedule_appointment" /\ now' = now) =>
          \A appointments_after \in {appointments'} :
          \A availability_after \in {doctors_availability'} :
              IF result'.success
              THEN \E i \in DOMAIN appointments : \E new \in SlotTimes :
                      Swapped(i, new, appointments_after, availability_after)
              ELSE /\ appointments_after = appointments
                   /\ availability_after = doctors_availability]_vars

\* A reschedule has just moved an appointment: its slot is taken and the
\* doctor's other slot is free again.
C26_Witness ==
    /\ result.op = "reschedule_appointment"
    /\ result.success
    /\ \E i \in Scheduled :
          LET slots == doctors_availability[appointments[i].doctor_id].available_slots
          IN  /\ ~slots[appointments[i].scheduled_time]
              /\ \E s \in DOMAIN slots : slots[s]

ConsultationsOf(i) ==
    {c \in DOMAIN consultations : consultations[c].appointment_id = i}

\* C27: each consultation refers to an existing appointment and is active
\* exactly when that appointment is in_progress; a completed appointment
\* has a consultation, which ended no earlier than it started.
C27_Consistency ==
    /\ \A c \in DOMAIN consultations :
          /\ consultations[c].appointment_id \in DOMAIN appointments
          /\ consultations[c].status = "active"
                <=> appointments[consultations[c].appointment_id].status = "in_progress"
    /\ \A i \in DOMAIN appointments :
          appointments[i].status = "completed" =>
              \E c \in ConsultationsOf(i) :
                  /\ Len(consultations[c].ended_at) = 1
                  /\ consultations[c].started_at <= consultations[c].ended_at[1]

\* One appointment completed by a consultation that lasted some time, and
\* another in progress.
C27_Witness ==
    /\ \E i \in DOMAIN appointments :
          /\ appointments[i].status = "completed"
          /\ \E c \in ConsultationsOf(i) :
                consultations[c].started_at < consultations[c].ended_at[1]
    /\ \E c \in DOMAIN consultations :
          /\ consultations[c].status = "active"
          /\ appointments[consultations[c].appointment_id].status = "in_progress"


(***************************************************************************)
(* mental_health_ai.py: the PHQ-9 screening                                *)
(***************************************************************************)

\* get_crisis_resources: the emergency contacts and the hotlines' numbers.
get_crisis_resources ==
    [immediate_help |-> <<"911 for immediate emergency",
                          "Go to nearest emergency room",
                          "Call local crisis intervention team">>,
     hotlines |-> <<"988", "Text HOME to 741741", "1-800-950-NAMI">>,
     message |-> "If you are having thoughts of self-harm, please reach out for immediate help."]

\* get_professional_help_resources, by its message and resources.
get_professional_help_resources ==
    [message |-> "Consider reaching out to a mental health professional for additional support.",
     resources |-> <<"Psychology Today therapist finder",
                     "Your healthcare provider for referrals",
                     "Employee assistance programs",
                     "Community mental health centers">>]

\* The number of questions and the scale of an answer.
Phq9Questions == 9
MaxAnswer == 3

\* The scores up to which the depression is minimal, mild, moderate and
\* moderately severe, and the score from which a follow-up is needed.
MinimalScore == 4
MildScore == 9
ModerateScore == 14
ModeratelySevereScore == 19
FollowUpScore == 10

Phq9Severity(total_score) ==
    IF total_score <= MinimalScore THEN "minimal"
    ELSE IF total_score <= MildScore THEN "mild"
    ELSE IF total_score <= ModerateScore THEN "moderate"
    ELSE IF total_score <= ModeratelySevereScore THEN "moderately_severe"
    ELSE "severe"

\* The assessments stored for a user so far.
StoredFor(store, user_id) == IF user_id \in DOMAIN store THEN store[user_id] ELSE <<>>

\* uuid4: an identifier no stored assessment has.
NewAssessmentId(store) ==
    Cardinality(UNION {{<<u, n>> : n \in 1..Len(store[u])} : u \in DOMAIN store}) + 1

\* The mental health service and the return value of the last call.
MentalHealth == [stress_assessments |-> stress_assessments, result |-> result]

\* conduct_phq9_assessment asking for a follow-up on the total score alone.
conduct_phq9_assessment_by_score(m, user_id, responses) ==
    LET op == "conduct_phq9_assessment"
        args == [user_id |-> user_id, responses |-> responses]
        total_score == SumSeq(responses)
        suicidal_risk == responses[Phq9Questions] > 0
        severity == Phq9Severity(total_score)
        assessment ==
            [assessment_id |-> NewAssessmentId(m.stress_assessments),
             user_id |-> user_id,
             type |-> "PHQ-9",
             responses |-> responses,
             total_score |-> total_score,
             severity |-> severity,
             suicidal_risk |-> suicidal_risk,
             follow_up_needed |-> total_score >= FollowUpScore]
    IN  IF Len(responses) # Phq9Questions
        THEN [m EXCEPT !.result =
                Failure(op, "PHQ-9 requires 9 responses") @@ [args |-> args]]
        ELSE IF ~(\A n \in 1..Len(responses) : 0 <= responses[n] /\ responses[n] <= MaxAnswer)
        THEN [m EXCEPT !.result =
                Failure(op, "Responses must be between 0-3") @@ [args |-> args]]
        ELSE [stress_assessments |->
                 (user_id :> Append(StoredFor(m.stress_assessments, user_id), assessment))
                     @@ m.stress_assessments,
              result |->
                 [op |-> op, success |-> TRUE, error |-> "", args |-> args,
                  assessment |-> assessment,
                  immediate_actions |->
                      IF suicidal_risk THEN get_crisis_resources
                      ELSE IF severity \in {"moderately_severe", "severe"}
                      THEN get_professional_help_resources
                      ELSE <<>>]]

\* conduct_phq9_assessment: nine answers on the scale are scored, the
\* assessment is stored for the user and returned with the resources the
\* answers call for; any other list is refused.
conduct_phq9_assessment(m, user_id, responses) ==
    LET op == "conduct_phq9_assessment"
        args == [user_id |-> user_id, responses |-> responses]
        total_score == SumSeq(responses)
        suicidal_risk == responses[Phq9Questions] > 0
        severity == Phq9Severity(total_score)
        assessment ==
            [assessment_id |-> NewAssessmentId(m.stress_assessments),
             user_id |-> user_id,
             type |-> "PHQ-9",
             responses |-> responses,
             total_score |-> total_score,
             severity |-> severity,
             suicidal_risk |-> suicidal_risk,
             follow_up_needed |-> total_score >= FollowUpScore \/ suicidal_risk]
    IN  IF Len(responses) # Phq9Questions
        THEN [m EXCEPT !.result =
                Failure(op, "PHQ-9 requires 9 responses") @@ [args |-> args]]
        ELSE IF ~(\A n \in 1..Len(responses) : 0 <= responses[n] /\ responses[n] <= MaxAnswer)
        THEN [m EXCEPT !.result =
                Failure(op, "Responses must be between 0-3") @@ [args |-> args]]
        ELSE [stress_assessments |->
                 (user_id :> Append(StoredFor(m.stress_assessments, user_id), assessment))
                     @@ m.stress_assessments,
              result |->
                 [op |-> op, success |-> TRUE, error |-> "", args |-> args,
                  assessment |-> assessment,
                  immediate_actions |->
                      IF suicidal_risk THEN get_crisis_resources
                      ELSE IF severity \in {"moderately_severe", "severe"}
                      THEN get_professional_help_resources
                      ELSE <<>>]]

\* mindfulness_exercises, every exercise by its name.
mindfulness_exercises ==
    [breathing |-> <<"4-7-8 Breathing", "Box Breathing", "Belly Breathing">>,
     meditation |-> <<"Body Scan Meditation", "Loving-Kindness Meditation",
                      "Mindful Observation">>,
     grounding |-> <<"5-4-3-2-1 Technique", "Progressive Muscle Relaxation">>]

get_anxiety_exercises(severity) ==
    IF severity \in {"minimal", "mild"}
    THEN SubSeq(mindfulness_exercises.breathing, 1, 2)
            \o SubSeq(mindfulness_exercises.grounding, 1, 1)
    ELSE IF severity = "moderate"
    THEN mindfulness_exercises.breathing \o mindfulness_exercises.grounding
    ELSE mindfulness_exercises.breathing \o mindfulness_exercises.grounding
            \o SubSeq(mindfulness_exercises.meditation, 1, 1)

\* The number of questions of the GAD-7, the scores up to which the anxiety
\* is minimal, mild and moderate, and the score from which a follow-up is
\* needed.
Gad7Questions == 7
Gad7MinimalScore == 4
Gad7MildScore == 9
Gad7ModerateScore == 14
Gad7FollowUpScore == 10

Gad7Severity(total_score) ==
    IF total_score <= Gad7MinimalScore THEN "minimal"
    ELSE IF total_score <= Gad7MildScore THEN "mild"
    ELSE IF total_score <= Gad7ModerateScore THEN "moderate"
    ELSE "severe"

\* conduct_gad7_assessment: seven answers on the scale are scored and the
\* assessment is stored in the list of the user, the one the PHQ-9
\* assessments are stored in.
conduct_gad7_assessment(m, user_id, responses) ==
    LET op == "conduct_gad7_assessment"
        args == [user_id |-> user_id, responses |-> responses]
        total_score == SumSeq(responses)
        severity == Gad7Severity(total_score)
        assessment ==
            [assessment_id |-> NewAssessmentId(m.stress_assessments),
             user_id |-> user_id,
             type |-> "GAD-7",
             responses |-> responses,
             total_score |-> total_score,
             severity |-> severity,
             follow_up_needed |-> total_score >= Gad7FollowUpScore]
    IN  IF Len(responses) # Gad7Questions
        THEN [m EXCEPT !.result =
                Failure(op, "GAD-7 requires 7 responses") @@ [args |-> args]]
        ELSE IF ~(\A n \in 1..Len(responses) : 0 <= responses[n] /\ responses[n] <= MaxAnswer)
        THEN [m EXCEPT !.result =
                Failure(op, "Responses must be between 0-3") @@ [args |-> args]]
        ELSE [stress_assessments |->
                 (user_id :> Append(StoredFor(m.stress_assessments, user_id), assessment))
                     @@ m.stress_assessments,
              result |->
                 [op |-> op, success |-> TRUE, error |-> "", args |-> args,
                  assessment |-> assessment,
                  recommended_exercises |-> get_anxiety_exercises(severity)]]

\* The response lists: the first eight answers are some threes followed by
\* zeros, the ninth is on the scale or just off it; and lists that are too
\* short, too long, or off the scale in the first answer.
ThreesInputs == {0, 1, 3, 4, 6, 8}
NinthInputs == {0 - 1, 0, 1, 3, 4}

Answers(threes, ninth) ==
    [n \in 1..Phq9Questions |->
        IF n = Phq9Questions THEN ninth ELSE IF n <= threes THEN 3 ELSE 0]

Phq9Inputs ==
    {Answers(threes, ninth) : threes \in ThreesInputs, ninth \in NinthInputs}
        \cup {SubSeq(Answers(0, 1), 1, Phq9Questions - 1),
              Append(Answers(0, 1), 1),
              [Answers(0, 1) EXCEPT ![1] = 4],
              <<>>}

\* The assessments conducted in one run.
MaxAssessments == 2

ConductPhq9Assessment ==
    /\ NewAssessmentId(stress_assessments) <= MaxAssessments
    /\ \E user_id \in Users, responses \in Phq9Inputs :
          LET m == conduct_phq9_assessment(MentalHealth, user_id, responses)
          IN  /\ stress_assessments' = m.stress_assessments
              /\ result' = m.result
    /\ UNCHANGED <<application, telemedicine, medication, vital_signs>>

\* The response lists of the GAD-7: seven equal answers, and lists that are
\* too short or off the scale.
Gad7Inputs ==
    {[n \in 1..Gad7Questions |-> answer] : answer \in {0, 1, 2, 3, 4}}
        \cup {[n \in 1..(Gad7Questions - 1) |-> 1]}

ConductGad7Assessment ==
    /\ NewAssessmentId(stress_assessments) <= MaxAssessments
    /\ \E user_id \in Users, responses \in Gad7Inputs :
          LET m == conduct_gad7_assessment(MentalHealth, user_id, responses)
          IN  /\ stress_assessments' = m.stress_assessments
              /\ result' = m.result
    /\ UNCHANGED <<application, telemedicine, medication, vital_signs>>

InitPhq9 ==
    /\ ApplicationIdle
    /\ TelemedicineIdle
    /\ stress_assessments = <<>>
    /\ result = NoResult
    /\ MedicationIdle
    /\ VitalSignsIdle

NextPhq9 ==
    \/ ConductPhq9Assessment
    \/ ConductGad7Assessment

SpecPhq9 == InitPhq9 /\ [][NextPhq9]_vars

ValidResponses(responses) ==
    /\ Len(responses) = 9
    /\ \A n \in 1..Len(responses) : responses[n] \in 0..3

\* C28: a call with nine answers in 0..3 stores the assessment it returns,
\* and when the ninth answer is above 0 that assessment has suicidal_risk
\* and follow_up_needed set and the immediate actions are the crisis
\* resources, whatever the total score; a call with any other list returns
\* an error and stores nothing.
C28_Phq9Screening ==
    [][result'.op = "conduct_phq9_assessment" =>
          \A answer \in {result'} : \A store \in {stress_assessments'} :
              IF ValidResponses(answer.args.responses)
              THEN /\ answer.success
                   /\ store = (answer.args.user_id :>
                                  Append(StoredFor(stress_assessments, answer.args.user_id),
                                         answer.assessment)) @@ stress_assessments
                   /\ answer.assessment.responses = answer.args.responses
                   /\ answer.args.responses[9] > 0 =>
                         /\ answer.assessment.suicidal_risk
                         /\ answer.assessment.follow_up_needed
                         /\ answer.immediate_actions = get_crisis_resources
              ELSE /\ ~answer.success
                   /\ answer.error # ""
                   /\ store = stress_assessments]_vars

\* An assessment with a minimal total score and a ninth answer above 0 has
\* been stored and returned with the crisis resources.
C28_Witness ==
    /\ result.op = "conduct_phq9_assessment"
    /\ result.success
    /\ result.assessment.total_score = 1
    /\ result.assessment.severity = "minimal"
    /\ result.assessment.suicidal_risk
    /\ result.assessment.follow_up_needed
    /\ result.immediate_actions = get_crisis_resources
    /\ result.assessment \in Range(stress_assessments[result.args.user_id])


(***************************************************************************)
(* medication_manager.py: add_medication                                   *)
(***************************************************************************)

\* The clock counts ticks; strftime('%Y%m%d_%H%M%S') keeps the whole
\* seconds of a reading.
TicksPerSecond == 2

strftime(t) == ToString(t \div TicksPerSecond)

\* The values of MedicationStatus.
MedicationStatus == {"active", "paused", "discontinued", "completed"}

\* The keys add_medication reads with medication_data[...], in the order
\* it reads them.
RequiredKeys == <<"name", "dosage", "frequency", "start_date">>

MissingKeys(medication_data) ==
    {n \in 1..Len(RequiredKeys) : RequiredKeys[n] \notin DOMAIN medication_data}

Get(medication_data, key, default) ==
    IF key \in DOMAIN medication_data THEN medication_data[key] ELSE default

\* datetime.fromisoformat, as add_medication calls it on start_date and
\* end_date.
AsciiDigits == "0123456789"

is_digit(c) == \E n \in 1..Len(AsciiDigits) : Ch(AsciiDigits, n) = c

DigitValue(c) == (CHOOSE n \in 1..Len(AsciiDigits) : Ch(AsciiDigits, n) = c) - 1

\* s[a:b] of Python, for 0 <= a.
Slice(s, a, b) ==
    IF a >= Len(s) \/ b <= a THEN "" ELSE SubSeq(s, a + 1, IF b < Len(s) THEN b ELSE Len(s))

\* The character at position pos of s, counted from 0; "" past the end.
At(s, pos) == Slice(s, pos, pos + 1)

all_digits(s) == \A n \in 1..Len(s) : is_digit(Ch(s, n))

RECURSIVE digits_value(_)
digits_value(s) ==
    IF Len(s) = 0 THEN 0
    ELSE 10 * digits_value(SubSeq(s, 1, Len(s) - 1)) + DigitValue(Ch(s, Len(s)))

\* parse_digits: the number written by the num_digits digits of s from pos,
\* or nothing when one of them is not a digit.
parse_digits(s, pos, num_digits) ==
    IF pos + num_digits <= Len(s) /\ all_digits(Slice(s, pos, pos + num_digits))
    THEN <<digits_value(Slice(s, pos, pos + num_digits))>>
    ELSE <<>>

RECURSIVE Power10(_)
Power10(n) == IF n = 0 THEN 1 ELSE 10 * Power10(n - 1)

\* The calendar.
MINYEAR == 1
MAXYEAR == 9999
MicrosecondDigits == 6
SecondsPerDay == 86400
SecondsPerHour == 3600
SecondsPerMinute == 60
MicrosecondsPerSecond == 1000000

is_leap(year) == year % 4 = 0 /\ (year % 100 # 0 \/ year % 400 = 0)

days_in_month(year, month) ==
    IF month = 2 THEN (IF is_leap(year) THEN 29 ELSE 28)
    ELSE IF month \in {4, 6, 9, 11} THEN 30 ELSE 31

RECURSIVE days_before_month(_, _)
days_before_month(year, month) ==
    IF month = 1 THEN 0
    ELSE days_before_month(year, month - 1) + days_in_month(year, month - 1)

days_before_year(year) ==
    LET y == year - 1 IN y * 365 + (y \div 4) - (y \div 100) + (y \div 400)

ymd2ord(year, month, day) == days_before_year(year) + days_before_month(year, month) + day

\* The date of ordinal n, a day of the year before, of the year or of the
\* year after.
ord2ymd(n, around) ==
    LET year == CHOOSE y \in {around - 1, around, around + 1} :
                    days_before_year(y) < n /\ n <= days_before_year(y + 1)
        of_year == n - days_before_year(year)
        month == CHOOSE m \in 1..12 :
                    /\ days_before_month(year, m) < of_year
                    /\ of_year <= days_before_month(year, m) + days_in_month(year, m)
    IN  <<year, month, of_year - days_before_month(year, month)>>

isoweek1monday(year) ==
    LET firstday == ymd2ord(year, 1, 1)
        firstweekday == (firstday + 6) % 7
        week1monday == firstday - firstweekday
    IN  IF firstweekday > 3 THEN week1monday + 7 ELSE week1monday

\* The date of a day of an ISO week, or nothing when the year has no such
\* week or the week no such day.  A year 0 leaves the month unset.
isoweek_to_gregorian(year, week, day) ==
    LET first_weekday == ymd2ord(year, 1, 1) % 7
        long_year == first_weekday = 4 \/ (first_weekday = 3 /\ is_leap(year))
    IN  IF ~(0 < week /\ week < 53) /\ ~(week = 53 /\ long_year) THEN <<>>
        ELSE IF ~(0 < day /\ day < 8) THEN <<>>
        ELSE IF year < MINYEAR THEN <<<<MINYEAR, 0, 0>>>>
        ELSE <<ord2ymd(isoweek1monday(year) + (week - 1) * 7 + (day - 1), year)>>

RECURSIVE DigitsFrom(_, _)
DigitsFrom(s, idx) ==
    IF idx < Len(s) /\ is_digit(At(s, idx)) THEN DigitsFrom(s, idx + 1) ELSE idx

\* Where the date of a string of seven characters or more ends.
find_isoformat_datetime_separator(dtstr) ==
    IF Len(dtstr) = 7 THEN 7
    ELSE IF At(dtstr, 4) = "-"
    THEN IF At(dtstr, 5) = "W"
         THEN IF Len(dtstr) > 8 /\ At(dtstr, 8) = "-"
              THEN IF Len(dtstr) > 10 /\ is_digit(At(dtstr, 10)) THEN 8 ELSE 10
              ELSE 8
         ELSE 10
    ELSE IF At(dtstr, 4) = "W"
    THEN LET idx == DigitsFrom(dtstr, 7)
         IN  IF idx < 9 THEN idx ELSE IF idx % 2 = 0 THEN 7 ELSE 8
    ELSE 8

\* The year, month and day of the first len characters of dtstr, or nothing.
parse_isoformat_date(dtstr, len) ==
    LET year == parse_digits(dtstr, 0, 4)
        uses_separator == At(dtstr, 4) = "-"
        p == IF uses_separator THEN 5 ELSE 4
    IN  IF year = <<>> THEN <<>>
        ELSE IF At(dtstr, p) = "W"
        THEN LET iso_week == parse_digits(dtstr, p + 1, 2)
                 q == p + 3
                 r == IF uses_separator THEN q + 1 ELSE q
                 iso_day == parse_digits(dtstr, r, 1)
             IN  IF iso_week = <<>> THEN <<>>
                 ELSE IF q >= len THEN isoweek_to_gregorian(year[1], iso_week[1], 1)
                 ELSE IF uses_separator /\ At(dtstr, q) # "-" THEN <<>>
                 ELSE IF iso_day = <<>> THEN <<>>
                 ELSE isoweek_to_gregorian(year[1], iso_week[1], iso_day[1])
        ELSE LET month == parse_digits(dtstr, p, 2)
                 q == p + 2
                 r == IF uses_separator THEN q + 1 ELSE q
                 day == parse_digits(dtstr, r, 2)
             IN  IF month = <<>> THEN <<>>
                 ELSE IF uses_separator /\ At(dtstr, q) # "-" THEN <<>>
                 ELSE IF day = <<>> THEN <<>>
                 ELSE <<<<year[1], month[1], day[1]>>>>

\* The fraction of a second written from pos to the end of tstr: six digits
\* of it count, further digits are skipped.
parse_fraction(tstr, pos, vals) ==
    LET len_remains == Len(tstr) - pos
        to_parse == IF len_remains >= MicrosecondDigits THEN MicrosecondDigits ELSE len_remains
        fraction == parse_digits(tstr, pos, to_parse)
    IN  IF fraction = <<>> THEN [rv |-> -3, vals |-> vals]
        ELSE [rv |-> IF all_digits(Slice(tstr, pos + to_parse, Len(tstr))) THEN 0 ELSE 1,
              vals |-> [vals EXCEPT ![4] = fraction[1] * Power10(MicrosecondDigits - to_parse)]]

\* parse_hh_mm_ss_ff: HH[:MM[:SS[.fff]]] and HH[MM[SS[.fff]]].  rv is
\* negative for a malformed string, 1 when characters are left over.
RECURSIVE parse_hh_mm_ss_ff(_, _, _, _, _)
parse_hh_mm_ss_ff(tstr, i, pos, has_separator, vals) ==
    LET digits == parse_digits(tstr, pos, 2)
        c == At(tstr, pos + 2)
        p == pos + 3
        separated == IF i = 0 THEN c = ":" ELSE has_separator
        read == [vals EXCEPT ![i + 1] = digits[1]]
    IN  IF i = 3 THEN parse_fraction(tstr, pos, vals)
        ELSE IF digits = <<>> THEN [rv |-> -3, vals |-> vals]
        ELSE IF p >= Len(tstr) THEN [rv |-> IF c = "" THEN 0 ELSE 1, vals |-> read]
        ELSE IF separated /\ c = ":" THEN parse_hh_mm_ss_ff(tstr, i + 1, p, separated, read)
        ELSE IF c \in {".", ","} THEN parse_fraction(tstr, p, read)
        ELSE IF ~separated THEN parse_hh_mm_ss_ff(tstr, i + 1, p - 1, separated, read)
        ELSE [rv |-> -4, vals |-> read]

RECURSIVE FindTz(_, _)
FindTz(tstr, pos) ==
    IF pos >= Len(tstr) \/ At(tstr, pos) \in {"Z", "+", "-"} THEN pos
    ELSE FindTz(tstr, pos + 1)

\* The time and the offset that were read, or nothing: the time must be
\* well formed and, without an offset, leave nothing over; a Z ends the
\* string; an offset must leave nothing over.
time_and_offset(tstr, tzinfo_pos, time, tz) ==
    LET tzsign == IF At(tstr, tzinfo_pos) = "-" THEN -1 ELSE 1
    IN  IF time.rv < 0 THEN <<>>
        ELSE IF tzinfo_pos = Len(tstr)
        THEN (IF time.rv = 1 THEN <<>> ELSE <<[time |-> time.vals, tz |-> <<>>]>>)
        ELSE IF At(tstr, tzinfo_pos) = "Z"
        THEN (IF tzinfo_pos + 1 # Len(tstr) THEN <<>>
              ELSE <<[time |-> time.vals, tz |-> <<<<0, 0>>>>]>>)
        ELSE IF tz.rv # 0 THEN <<>>
        ELSE <<[time |-> time.vals,
                tz |-> <<<<tzsign * (tz.vals[1] * SecondsPerHour
                                        + tz.vals[2] * SecondsPerMinute + tz.vals[3]),
                           tzsign * tz.vals[4]>>>>]>>

\* The parts of tstr before and after the first Z, + or -.
TimeParts(tstr, tzinfo_pos) ==
    <<Slice(tstr, 0, tzinfo_pos), Slice(tstr, tzinfo_pos + 1, Len(tstr))>>

\* The hour, minute, second and microsecond of tstr and its offset in
\* seconds and microseconds, or nothing.
parse_isoformat_time(tstr) ==
    LET read == [n \in 1..2 |->
                    parse_hh_mm_ss_ff(TimeParts(tstr, FindTz(tstr, 0))[n],
                                      0, 0, FALSE, <<0, 0, 0, 0>>)]
    IN  time_and_offset(tstr, FindTz(tstr, 0), read[1], read[2])

\* timedelta(seconds=..., microseconds=...), normalised, and its repr.
timedelta(seconds, microseconds) ==
    LET carried == IF microseconds < 0 THEN seconds - 1 ELSE seconds
    IN  [days |-> carried \div SecondsPerDay,
         seconds |-> carried % SecondsPerDay,
         microseconds |-> IF microseconds < 0 THEN MicrosecondsPerSecond + microseconds
                          ELSE microseconds]

repr_timedelta(td) ==
    LET args == (IF td.days # 0 THEN <<"days=" \o ToString(td.days)>> ELSE <<>>)
                \o (IF td.seconds # 0 THEN <<"seconds=" \o ToString(td.seconds)>> ELSE <<>>)
                \o (IF td.microseconds # 0
                    THEN <<"microseconds=" \o ToString(td.microseconds)>> ELSE <<>>)
    IN  "datetime.timedelta("
            \o (IF Len(args) = 0 THEN "0"
                ELSE IF Len(args) = 1 THEN args[1]
                ELSE IF Len(args) = 2 THEN args[1] \o ", " \o args[2]
                ELSE args[1] \o ", " \o args[2] \o ", " \o args[3])
            \o ")"

ValueError(message) == [error |-> message, value |-> <<>>]

\* The datetime of a date and a time that were read; its fields are checked
\* after the offset.
new_datetime(date, time, offset) ==
    LET year == date[1]
        month == date[2]
        day == date[3]
        hour == time.time[1]
        minute == time.time[2]
        second == time.time[3]
    IN  IF time.tz # <<>> /\ (time.tz[1][1] >= SecondsPerDay \/ time.tz[1][1] <= -SecondsPerDay)
        THEN ValueError("offset must be a timedelta strictly between "
                        \o "-timedelta(hours=24) and timedelta(hours=24), not "
                        \o repr_timedelta(offset) \o ".")
        ELSE IF year < MINYEAR \/ year > MAXYEAR
        THEN ValueError("year " \o ToString(year) \o " is out of range")
        ELSE IF month < 1 \/ month > 12 THEN ValueError("month must be in 1..12")
        ELSE IF day < 1 \/ day > days_in_month(year, month)
        THEN ValueError("day is out of range for month")
        ELSE IF hour > 23 THEN ValueError("hour must be in 0..23")
        ELSE IF minute > 59 THEN ValueError("minute must be in 0..59")
        ELSE IF second > 59 THEN ValueError("second must be in 0..59")
        ELSE [error |-> "",
              value |-> <<[year |-> year, month |-> month, day |-> day,
                           hour |-> hour, minute |-> minute, second |-> second,
                           microsecond |-> time.time[4],
                           tzinfo |-> IF time.tz = <<>> THEN <<>>
                                      ELSE IF time.tz[1][1] = 0 THEN <<timedelta(0, 0)>>
                                      ELSE <<offset>>]>>]

\* The datetime of what was read of date_string, when both its date and
\* its time were read.
datetime_of(date_string, date, time) ==
    IF Len(date_string) < 7 \/ date = <<>> \/ time = <<>>
    THEN ValueError("Invalid isoformat string: " \o repr(date_string))
    ELSE new_datetime(date[1], time[1],
                      IF time[1].tz = <<>> THEN timedelta(0, 0)
                      ELSE timedelta(time[1].tz[1][1], time[1].tz[1][2]))

\* datetime.fromisoformat: the datetime date_string writes, or the message
\* of the ValueError.
fromisoformat(date_string) ==
    LET separator_location == find_isoformat_datetime_separator(date_string)
    IN  datetime_of(date_string,
                    parse_isoformat_date(date_string, separator_location),
                    IF Len(date_string) > separator_location
                    THEN parse_isoformat_time(Slice(date_string, separator_location + 1,
                                                    Len(date_string)))
                    ELSE <<[time |-> <<0, 0, 0, 0>>, tz |-> <<>>]>>)

\* frequency_schedules, and the schedule of a frequency that is not in it.
frequency_schedules ==
    [once_daily |-> <<"08:00">>,
     twice_daily |-> <<"08:00", "20:00">>,
     three_times_daily |-> <<"08:00", "14:00", "20:00">>,
     four_times_daily |-> <<"08:00", "12:00", "16:00", "20:00">>,
     every_6_hours |-> <<"06:00", "12:00", "18:00", "00:00">>,
     every_8_hours |-> <<"08:00", "16:00", "00:00">>,
     every_12_hours |-> <<"08:00", "20:00">>,
     bedtime |-> <<"22:00">>,
     morning |-> <<"08:00">>,
     with_meals |-> <<"08:00", "13:00", "19:00">>,
     as_needed |-> <<>>]

DefaultSchedule == <<"08:00">>

\* _generate_schedule_times; custom_times that are not given are the empty
\* list.
generate_schedule_times(frequency, custom_times) ==
    IF Len(custom_times) > 0 THEN custom_times
    ELSE IF frequency \in DOMAIN frequency_schedules THEN frequency_schedules[frequency]
    ELSE DefaultSchedule

\* s.split(sep) for a single character sep.
RECURSIVE split(_, _)
split(s, sep) ==
    IF ~Contains(sep, s) THEN <<s>>
    ELSE <<Slice(s, 0, Min({n \in 1..Len(s) : Ch(s, n) = sep}) - 1)>>
            \o split(Slice(s, Min({n \in 1..Len(s) : Ch(s, n) = sep}), Len(s)), sep)

\* The digits without the zeros they begin with.
StripZeros(s) ==
    IF \A n \in 1..Len(s) : Ch(s, n) = "0" THEN ""
    ELSE Slice(s, Min({n \in 1..Len(s) : Ch(s, n) # "0"}) - 1, Len(s))

\* int(text): the sign and the digits of the number, without its leading
\* zeros, or nothing when text is not a decimal literal.
int(text) ==
    LET stripped == Strip(text)
        signed == Len(stripped) > 0 /\ Ch(stripped, 1) \in {"+", "-"}
        body == IF signed THEN Tail(stripped) ELSE stripped
        digits == StripZeros(Replace(body, "_", ""))
    IN  IF /\ Len(body) > 0
           /\ is_digit(Ch(body, 1))
           /\ is_digit(Ch(body, Len(body)))
           /\ \A n \in 1..Len(body) :
                \/ is_digit(Ch(body, n))
                \/ Ch(body, n) = "_" /\ Ch(body, n + 1) # "_"
        THEN <<[negative |-> signed /\ Ch(stripped, 1) = "-" /\ digits # "",
                digits |-> digits]>>
        ELSE <<>>

\* a > b for two numbers written without leading zeros.
RECURSIVE DigitsGreater(_, _)
DigitsGreater(a, b) ==
    IF Len(a) # Len(b) THEN Len(a) > Len(b)
    ELSE IF Len(a) = 0 THEN FALSE
    ELSE IF Ch(a, 1) # Ch(b, 1) THEN DigitValue(Ch(a, 1)) > DigitValue(Ch(b, 1))
    ELSE DigitsGreater(Tail(a), Tail(b))

\* The largest int and long of C and the magnitudes of the smallest.
INT_MAX == "2147483647"
INT_MIN == "2147483648"
LONG_MAX == "9223372036854775807"
LONG_MIN == "9223372036854775808"

\* The OverflowError of passing the number as an int of C, "" when it fits.
OverflowError(number) ==
    IF DigitsGreater(number.digits, IF number.negative THEN LONG_MIN ELSE LONG_MAX)
    THEN "Python int too large to convert to C long"
    ELSE IF DigitsGreater(number.digits, IF number.negative THEN INT_MIN ELSE INT_MAX)
    THEN (IF number.negative THEN "signed integer is less than minimum"
          ELSE "signed integer is greater than maximum")
    ELSE ""

InRange(number, max) == ~number.negative /\ ~DigitsGreater(number.digits, ToString(max))

\* The characters of the text that the message of int() shows.
ReprLimit == 200

\* hour, minute = map(int, time_str.split(':')) and
\* dose_date.replace(hour=hour, minute=minute): the message of the error
\* raised, "" when there is none.
dose_time_error(time_str) ==
    LET parts == split(time_str, ":")
        InvalidLiteral(part) ==
            "invalid literal for int() with base 10: "
                \o SubSeq(repr(part), 1, IF Len(repr(part)) < ReprLimit THEN Len(repr(part))
                                         ELSE ReprLimit)
        hour == int(parts[1])[1]
        minute == int(parts[2])[1]
    IN  IF int(parts[1]) = <<>> THEN InvalidLiteral(parts[1])
        ELSE IF Len(parts) = 1 THEN "not enough values to unpack (expected 2, got 1)"
        ELSE IF int(parts[2]) = <<>> THEN InvalidLiteral(parts[2])
        ELSE IF Len(parts) > 2
        THEN (IF int(parts[3]) = <<>> THEN InvalidLiteral(parts[3])
              ELSE "too many values to unpack (expected 2)")
        ELSE IF OverflowError(hour) # "" THEN OverflowError(hour)
        ELSE IF OverflowError(minute) # "" THEN OverflowError(minute)
        ELSE IF ~InRange(hour, 23) THEN "hour must be in 0..23"
        ELSE IF ~InRange(minute, 59) THEN "minute must be in 0..59"
        ELSE ""

\* _get_next_doses: the message of the first error of its loop over the
\* times, "" when every time is read.
RECURSIVE get_next_doses_error(_)
FirstError(error, later) == IF error # "" THEN error ELSE get_next_doses_error(later)

get_next_doses_error(times) ==
    IF Len(times) = 0 THEN ""
    ELSE FirstError(dose_time_error(Head(times)), Tail(times))

\* The medication of the data, when nothing was raised on the way: the
\* dates must be read, the status be one of MedicationStatus and the times
\* be read.
Medication(medication_data, t, dates, status, times, doses_error) ==
    LET op == "add_medication"
        has_end_date == Get(medication_data, "end_date", "") # ""
    IN  IF dates.start_date.error # "" THEN Failure(op, dates.start_date.error)
        ELSE IF has_end_date /\ dates.end_date.error # ""
        THEN Failure(op, dates.end_date.error)
        ELSE IF status \notin MedicationStatus
        THEN Failure(op, repr(status) \o " is not a valid MedicationStatus")
        ELSE IF doses_error # "" THEN Failure(op, doses_error)
        ELSE [op |-> op, success |-> TRUE, error |-> "",
              medication |->
                 [id |-> "med_" \o strftime(t),
                  name |-> Lower(medication_data.name),
                  generic_name |-> Get(medication_data, "generic_name",
                                       Lower(medication_data.name)),
                  dosage |-> medication_data.dosage,
                  frequency |-> medication_data.frequency,
                  times |-> times,
                  start_date |-> dates.start_date.value[1],
                  end_date |-> IF has_end_date THEN dates.end_date.value ELSE <<>>,
                  status |-> status]]

\* The times of the medication and the error of reading them.
Schedule(times) == [times |-> times, error |-> get_next_doses_error(times)]

\* add_medication: the identifier is made of the second the clock shows;
\* the medication is built from the data and returned, nothing is stored.
\* Whatever is raised on the way is returned as the error.
add_medication(medication_data, t) ==
    LET schedule == Schedule(generate_schedule_times(
                        medication_data.frequency,
                        Get(medication_data, "custom_times", <<>>)))
    IN  IF MissingKeys(medication_data) # {}
        THEN Failure("add_medication",
                     repr(RequiredKeys[Min(MissingKeys(medication_data))]))
        ELSE Medication(medication_data, t,
                        [key \in {"start_date", "end_date"} |->
                            fromisoformat(Get(medication_data, key, ""))],
                        Get(medication_data, "status", "active"),
                        schedule.times, schedule.error)

\* The medication data of the calls.
MedicationInputs ==
    {[name |-> "Lisinopril", dosage |-> "10mg", frequency |-> "once_daily",
      start_date |-> "2024-01-01"],
     [name |-> "ibuprofen", dosage |-> "400mg", frequency |-> "three_times_daily",
      start_date |-> "2024-01-01", status |-> "paused"],
     [name |-> "metformin", generic_name |-> "metformin", dosage |-> "500mg",
      frequency |-> "twice_daily", start_date |-> "2024-01-01"],
     [name |-> "aspirin", dosage |-> "81mg", frequency |-> "once_daily",
      start_date |-> "2024-01-01", status |-> "stopped"],
     [dosage |-> "10mg", frequency |-> "once_daily", start_date |-> "2024-01-01"],
     [name |-> "sertraline", frequency |-> "once_daily"],
     [name |-> "Warfarin", dosage |-> "5mg", frequency |-> "bedtime",
      start_date |-> "2024-01-01T00:00:00.000Z", end_date |-> "2024-06-30",
      custom_times |-> <<"21:30">>],
     [name |-> "aspirin", dosage |-> "81mg", frequency |-> "once_daily",
      start_date |-> "01/02/2024"],
     [name |-> "aspirin", dosage |-> "81mg", frequency |-> "once_daily",
      start_date |-> "not a date", status |-> "stopped"],
     [name |-> "aspirin", dosage |-> "81mg", frequency |-> "once_daily",
      start_date |-> ""],
     [name |-> "aspirin", dosage |-> "81mg", frequency |-> "once_daily",
      start_date |-> "2024-01-01", status |-> "a\tb"],
     [name |-> "amoxicillin", dosage |-> "500mg", frequency |-> "every_8_hours",
      start_date |-> "2024-02-01", end_date |-> "2024-02-30"],
     [name |-> "insulin", dosage |-> "10 units", frequency |-> "with_meals",
      start_date |-> "2024-01-01", custom_times |-> <<"08:00", "25:00">>],
     [name |-> "insulin", dosage |-> "10 units", frequency |-> "with_meals",
      start_date |-> "2024-01-01", custom_times |-> <<"8">>]}

\* The calls of one run, and the ticks of its clock.
MaxMedications == 2
MaxClock == 3

\* A call of add_medication; calls in flight at the same time read the
\* clock one after the other, with no tick in between.
AddMedication ==
    /\ Len(added) < MaxMedications
    /\ \E medication_data \in MedicationInputs :
          /\ result' = add_medication(medication_data, clock)
          /\ added' = IF result'.success THEN Append(added, result') ELSE added
    /\ UNCHANGED <<clock, application, telemedicine, mental_health, vital_signs>>

ClockTick ==
    /\ clock < MaxClock
    /\ clock' = clock + 1
    /\ UNCHANGED <<added, result, application, telemedicine, mental_health, vital_signs>>

InitMedication ==
    /\ ApplicationIdle
    /\ TelemedicineIdle
    /\ MentalHealthIdle
    /\ clock = 0
    /\ added = <<>>
    /\ result = NoResult
    /\ VitalSignsIdle

NextMedication ==
    \/ AddMedication
    \/ ClockTick

SpecMedication == InitMedication /\ [][NextMedication]_vars

\* C29: any two successful add_medication calls returned medications with
\* different ids, whenever the calls were made.
C29_UniqueIds ==
    \A i \in DOMAIN added : \A j \in DOMAIN added :
        i # j => added[i].medication.id # added[j].medication.id


(***************************************************************************)
(* vital_signs_monitor.py: _generate_alerts                                *)
(***************************************************************************)

\* Temperatures are in tenths of a degree.
normal_ranges ==
    [heart_rate |-> [min |-> 60, max |-> 100],
     blood_pressure_systolic |-> [min |-> 90, max |-> 140],
     blood_pressure_diastolic |-> [min |-> 60, max |-> 90],
     temperature |-> [min |-> 361, max |-> 372],
     oxygen_saturation |-> [min |-> 95, max |-> 100],
     stress_level |-> [min |-> 1, max |-> 10]]

alert_thresholds ==
    [heart_rate |-> [critical_low |-> 50, critical_high |-> 120],
     blood_pressure_systolic |-> [critical_low |-> 80, critical_high |-> 180],
     blood_pressure_diastolic |-> [critical_low |-> 50, critical_high |-> 110],
     temperature |-> [critical_low |-> 350, critical_high |-> 385],
     oxygen_saturation |-> [critical_low |-> 90, critical_high |-> 100],
     stress_level |-> [critical_low |-> 1, critical_high |-> 8]]

\* The vitals checked, in the order they are checked, with their display
\* names.
vitals_to_check ==
    <<[key |-> "heart_rate", display_name |-> "Heart Rate"],
      [key |-> "blood_pressure_systolic", display_name |-> "Systolic BP"],
      [key |-> "blood_pressure_diastolic", display_name |-> "Diastolic BP"],
      [key |-> "temperature", display_name |-> "Body Temperature"],
      [key |-> "oxygen_saturation", display_name |-> "Oxygen Saturation"],
      [key |-> "stress_level", display_name |-> "Stress Level"]>>

\* A value as the message shows it.
Shown(vital_key, value) ==
    IF vital_key = "temperature"
    THEN ToString(value \div 10) \o "." \o ToString(value % 10)
    ELSE ToString(value)

CriticalAlert(vital, value, side) ==
    [type |-> "critical",
     vital |-> vital.display_name,
     value |-> value,
     message |-> vital.display_name \o " critically " \o side \o ": "
                    \o Shown(vital.key, value),
     action |-> "Seek immediate medical attention"]

\* The alerts of the latest reading for the first n vitals checked.
RECURSIVE ThresholdAlerts(_, _)
ThresholdAlerts(latest, n) ==
    IF n = 0 THEN <<>>
    ELSE LET vital == vitals_to_check[n]
             value == latest[vital.key]
             thresholds == alert_thresholds[vital.key]
             before == ThresholdAlerts(latest, n - 1)
         IN  IF value <= thresholds.critical_low
             THEN Append(before, CriticalAlert(vital, value, "low"))
             ELSE IF value >= thresholds.critical_high
             THEN Append(before, CriticalAlert(vital, value, "high"))
             ELSE before

\* The heart rate above which three readings in a row make a pattern, and
\* the number of readings looked at.
ElevatedHeartRate == 110
PatternReadings == 3

PatternAlert ==
    [type |-> "warning",
     vital |-> "Heart Rate Pattern",
     message |-> "Sustained elevated heart rate detected",
     action |-> "Consider rest and hydration, monitor closely"]

\* _generate_alerts: the critical alerts of the latest reading, then the
\* warning for a sustained elevated heart rate.
generate_alerts(vitals) ==
    IF vitals = <<>> THEN <<>>
    ELSE LET latest == vitals[Len(vitals)]
             critical == ThresholdAlerts(latest, Len(vitals_to_check))
         IN  IF /\ Len(vitals) >= PatternReadings
                /\ \A n \in (Len(vitals) - PatternReadings + 1)..Len(vitals) :
                      vitals[n].heart_rate > ElevatedHeartRate
             THEN Append(critical, PatternAlert)
             ELSE critical

\* The readings: the latest one takes each vital from a few values at and
\* between the limits; the ones before it are a calm and an elevated one.
VitalInputs ==
    [heart_rate : {50, 75, 115},
     blood_pressure_systolic : {80, 115},
     blood_pressure_diastolic : {75, 110},
     temperature : {365, 385},
     oxygen_saturation : {90, 97, 100},
     stress_level : {1, 3, 8}]

Calm ==
    [heart_rate |-> 75, blood_pressure_systolic |-> 115, blood_pressure_diastolic |-> 75,
     temperature |-> 365, oxygen_saturation |-> 97, stress_level |-> 3]

EarlierReadings == {Calm, [Calm EXCEPT !.heart_rate = 115]}

\* The readings of one call.
MaxReadings == 3

RecentVitalsInputs ==
    {<<>>} \cup
    UNION {{earlier \o <<latest>> : earlier \in [1..n -> EarlierReadings],
                                    latest \in VitalInputs} : n \in 0..(MaxReadings - 1)}

\* The one call of a run.
GenerateAlerts ==
    /\ alerts = <<>>
    /\ alerts' = <<generate_alerts(recent_vitals)>>
    /\ UNCHANGED <<recent_vitals, result, application, telemedicine, mental_health,
                   medication>>

InitVitalSigns ==
    /\ ApplicationIdle
    /\ TelemedicineIdle
    /\ MentalHealthIdle
    /\ MedicationIdle
    /\ result = NoResult
    /\ recent_vitals \in RecentVitalsInputs
    /\ alerts = <<>>

NextVitalSigns == GenerateAlerts

SpecVitalSigns == InitVitalSigns /\ [][NextVitalSigns]_vars

\* The key of the vital an alert is about.
KeyOf(display_name) ==
    CHOOSE key \in DOMAIN normal_ranges :
        \E n \in 1..Len(vitals_to_check) :
            vitals_to_check[n].key = key /\ vitals_to_check[n].display_name = display_name

InNormalRange(key, value) ==
    normal_ranges[key].min <= value /\ value <= normal_ranges[key].max

\* C30: every critical alert returned is about a vital whose latest
\* reading lies outside its normal range [min, max].
C30_AlertSoundness ==
    \A call \in DOMAIN alerts : \A n \in DOMAIN alerts[call] :
        LET alert == alerts[call][n]
        IN  alert.type = "critical" =>
                ~InNormalRange(KeyOf(alert.vital),
                               recent_vitals[Len(recent_vitals)][KeyOf(alert.vital)])

====
